---- MODULE Spec2Model ----
(***************************************************************************)
(* Model of the error construction and conversion pipeline of              *)
(* ts-rust-result: the stack capture policy (src/errors/stack.ts), the     *)
(* error builder (src/errors/builder.ts), the factory shortcuts            *)
(* (src/errors/factories.ts) and the conversion utilities                  *)
(* (src/errors/conversion.ts, src/errors/zod.ts).                          *)
(*                                                                         *)
(* JavaScript values are tagged records [t, s, n]: t is the type tag, s    *)
(* the text of a string (a sequence of indivisible tokens, <<>> being the  *)
(* empty string ''), n a number, a boolean (0/1) or the address of an      *)
(* object in the heap.  Objects live in `heap`: a field map plus the       *)
(* frozen flag set by Object.freeze.                                       *)
(***************************************************************************)
EXTENDS Naturals, Sequences, FiniteSets, TLC

VARIABLES
    captureStacksOverride,  \* stack.ts:16  module-level override (boolean | undefined)
    NODE_ENV,               \* process.env.NODE_ENV read by shouldCaptureStack
    now,                    \* the clock read by Date.now()
    heap,                   \* the objects reachable by the caller (records, contexts, thrown values)
    builders,               \* the ErrorBuilderImpl instances created by error(kind)
    origin,                 \* history: for each heap object, the call that handed it out
    partials,               \* history: for each builder, the partials passed to withContext, in call order
    built,                  \* history: for each builder, the number of records build() returned
    said,                   \* history: for each builder, the number of withMessage calls (2 = several), the latest argument, and the clock at its creation
    setLog,                 \* history: the arguments of the setCaptureStacks calls, in call order
    last,                   \* history: the most recent call and its outcome
    walk,                   \* the cause-chain traversal in progress or finished, and what it produced
    inFlight                \* the tryResultSafe calls made, each awaiting its callback or resumed

vars == <<captureStacksOverride, NODE_ENV, now, heap, builders, origin, partials, built, said, setLog, last, walk, inFlight>>

policyVars == <<captureStacksOverride, setLog>>
envVars == <<NODE_ENV, now>>
heapVars == <<heap, origin>>
builderVars == <<builders, partials, built, said>>
walkVars == <<walk, inFlight>>

----------------------------------------------------------------------------
(* Bounds *)

MaxPartials == 2
MaxSets == 3
MaxClock == 2
MaxBuilders == 2
MaxLog == 4
MaxBuilds == 2
MaxInFlight == 2

----------------------------------------------------------------------------
(* JavaScript values *)

Undefined == [t |-> "undefined", s |-> <<>>, n |-> 0]
Null == [t |-> "null", s |-> <<>>, n |-> 0]
Str(toks) == [t |-> "string", s |-> toks, n |-> 0]
Num(k) == [t |-> "number", s |-> <<>>, n |-> k]
Bool(b) == [t |-> "boolean", s |-> <<>>, n |-> IF b THEN 1 ELSE 0]
Ref(a) == [t |-> "object", s |-> <<>>, n |-> a]

\* JavaScript truthiness (the ! operator and if (x) tests)
Truthy(v) ==
    CASE v.t = "undefined" -> FALSE
      [] v.t = "null" -> FALSE
      [] v.t = "string" -> v.s # <<>>
      [] v.t = "number" -> v.n # 0
      [] v.t = "boolean" -> v.n = 1
      [] OTHER -> TRUE

NoFields == [k \in {} |-> Undefined]

\* { ...a, ...b }: own fields of a, then those of b, a later value replacing an earlier one
Spread(a, b) == [k \in (DOMAIN a) \cup (DOMAIN b) |-> IF k \in DOMAIN b THEN b[k] ELSE a[k]]

\* a fresh, extensible object
Obj(cls, fields) == [cls |-> cls, frozen |-> FALSE, f |-> fields]

\* an array of n elements (only its length is used)
Arr(n) == [t |-> "array", s |-> <<>>, n |-> n]

\* String(v) and `${v}` for a primitive; an object without its own toString gives "[object Object]"
ToText(v) ==
    CASE v.t = "string" -> v.s
      [] v.t = "number" -> <<ToString(v.n)>>
      [] v.t = "boolean" -> IF v.n = 1 THEN <<"true">> ELSE <<"false">>
      [] v.t = "undefined" -> <<"undefined">>
      [] v.t = "null" -> <<"null">>
      [] OTHER -> <<"[object Object]">>

\* mutant: the text from its second character on
SubstringSkipsFirst(v, from, to) == Str(SubSeq(v.s, from + 2, IF to < Len(v.s) THEN to ELSE Len(v.s)))

\* text.substring(from, to), the text a sequence of characters
Substring(v, from, to) == Str(SubSeq(v.s, from + 1, IF to < Len(v.s) THEN to ELSE Len(v.s)))

\* new Date(ms).toISOString()
ToISOString(ms) == <<"ISO-8601 of ", ToString(ms.n)>>

----------------------------------------------------------------------------
(* Stack capture policy: src/errors/stack.ts *)

NoEnv == "<unset>"
Envs == {"development", "test", "production", "staging", NoEnv}

\* mutant: the test environment forgotten
shouldCaptureStackDevOnly == NODE_ENV = "development"

shouldCaptureStack == NODE_ENV = "development" \/ NODE_ENV = "test"

getCaptureStacksOverride == captureStacksOverride

\* mutant: the global override ignored, the environment alone deciding
getCaptureStacksEnvOnly == shouldCaptureStack

getCaptureStacks ==
    IF captureStacksOverride # Undefined
    THEN captureStacksOverride = Bool(TRUE)
    ELSE shouldCaptureStack


\* captureStack (stack.ts:84-96).  `callSite` is the frames of the code that
\* called captureStack, innermost first: new Error().stack is the header line
\* "Error", the frame of captureStack itself, then those frames.
RECURSIVE Join(_, _)
Join(lines, sep) ==
    IF lines = <<>> THEN <<>>
    ELSE IF Len(lines) = 1 THEN Head(lines)
    ELSE Head(lines) \o <<sep>> \o Join(Tail(lines), sep)

\* text.split(sep): the pieces between the separators (one piece, '', for '')
RECURSIVE SplitFrom(_, _, _)
SplitFrom(text, sep, cur) ==
    IF text = <<>> THEN <<cur>>
    ELSE IF Head(text) = sep THEN <<cur>> \o SplitFrom(Tail(text), sep, <<>>)
    ELSE SplitFrom(Tail(text), sep, Append(cur, Head(text)))

Split(text, sep) == SplitFrom(text, sep, <<>>)

\* lines.slice(k)
Slice(lines, k) == SubSeq(lines, k + 1, Len(lines))

NewErrorStack(callSite) ==
    Join(<<<<"Error">>, <<"    at captureStack">>>> \o [i \in 1..Len(callSite) |-> <<callSite[i]>>], "\n")

SkippedLines == 2

captureStack(callSite) ==
    IF ~getCaptureStacks
    THEN <<>>
    ELSE LET stack == NewErrorStack(callSite)
             lines == Split(stack, "\n")
         IN Join(Slice(lines, SkippedLines), "\n")

\* mutant: the stack of the Error object taken whatever the policy
captureStackFromErrorAlways(error) ==
    IF "stack" \in DOMAIN error.f /\ Truthy(error.f["stack"]) THEN error.f["stack"].s ELSE <<>>

\* captureStackFromError (stack.ts:113-118); error is the Error object
captureStackFromError(error) ==
    IF ~getCaptureStacks
    THEN <<>>
    ELSE IF "stack" \in DOMAIN error.f /\ Truthy(error.f["stack"]) THEN error.f["stack"].s ELSE <<>>

----------------------------------------------------------------------------
(* Error builder: src/errors/builder.ts.                                    *)
(* A builder's context object is private to the builder until build()      *)
(* hands it out inside a record: `context` holds its fields while it is    *)
(* private (ctxAddr = 0), and once handed out it is the heap object at     *)
(* ctxAddr, which the builder and the record share.                        *)

\* constructor (builder.ts:63-72)
ErrorBuilderImpl(kind) ==
    [kind |-> kind, message |-> Undefined, context |-> NoFields, ctxAddr |-> 0,
     cause |-> Undefined, stackOverride |-> "undefined"]

\* error(kind) (builder.ts:172-174)
error(kind) == ErrorBuilderImpl(kind)

\* this.context, read
ContextOf(b) == IF b.ctxAddr = 0 THEN b.context ELSE heap[b.ctxAddr].f

\* mutant: the first message is kept
withMessageKeepsFirst(b, message) == IF b.message = Undefined THEN [b EXCEPT !.message = message] ELSE b

withMessage(b, message) == [b EXCEPT !.message = message]

\* mutant: the spread operands swapped, an earlier key winning
withContextEarlierWins(b, context) == [b EXCEPT !.context = Spread(context, ContextOf(b)), !.ctxAddr = 0]

\* this.context = { ...this.context, ...context }: a new object
withContext(b, context) == [b EXCEPT !.context = Spread(ContextOf(b), context), !.ctxAddr = 0]

withCause(b, cause) == [b EXCEPT !.cause = cause]

builderCaptureStack(b) == [b EXCEPT !.stackOverride = "capture"]

\* mutant: skipStack() without effect once captureStack() was called
skipStackKeepsCapture(b) == IF b.stackOverride = "capture" THEN b ELSE [b EXCEPT !.stackOverride = "skip"]

skipStack(b) == [b EXCEPT !.stackOverride = "skip"]

\* build(), builder.ts:102: if (!this.message) throw
MessageMissing(b) == ~Truthy(b.message)

\* mutant: a clock value read earlier, one tick behind
DateNowBehind == IF now > 0 THEN now - 1 ELSE now

\* Date.now()
DateNow == now

\* mutant: the per-instance override shared by all builders
shouldCaptureAnyBuilder(b) ==
    IF \E j \in 1..Len(builders) : builders[j].stackOverride = "capture" THEN TRUE
    ELSE IF \E j \in 1..Len(builders) : builders[j].stackOverride = "skip" THEN FALSE
    ELSE getCaptureStacks

\* mutant: skipStack() ignored, the global policy deciding instead
shouldCaptureIgnoresSkip(b) ==
    IF b.stackOverride = "capture" THEN TRUE ELSE getCaptureStacks

\* build(), builder.ts:109-114
shouldCapture(b) ==
    IF b.stackOverride = "capture" THEN TRUE
    ELSE IF b.stackOverride = "skip" THEN FALSE
    ELSE getCaptureStacks

\* build(), builder.ts:127-129: Object.fromEntries(Object.entries(error).filter(value !== undefined))
cleanError(fields) == [k \in {x \in DOMAIN fields : fields[x] # Undefined} |-> fields[k]]

\* mutant: the record returned without Object.freeze
FreezeSkipped(o) == o

\* Object.freeze (builder.ts:132)
Freeze(o) == [o EXCEPT !.frozen = TRUE]

\* The address of the context object a record built from b points to:
\* the shared one, or the next free address when it is handed out first.
ContextAddr(b) == IF b.ctxAddr # 0 THEN b.ctxAddr ELSE Len(heap) + 1

\* build() (builder.ts:100-133): the outcome.  threw: the exception of line 103;
\* error: the record returned; context, ctxAddr: the builder's context object
\* and where it was handed out before (0: not yet).
build(b, callSite) ==
    IF MessageMissing(b)
    THEN [threw |-> TRUE, error |-> Obj("none", NoFields), context |-> NoFields, ctxAddr |-> 0]
    ELSE LET fields ==
                 [kind |-> b.kind,
                  message |-> b.message,
                  context |-> IF Cardinality(DOMAIN ContextOf(b)) > 0 THEN Ref(ContextAddr(b)) ELSE Undefined,
                  cause |-> b.cause,
                  stack |-> IF shouldCapture(b) THEN Str(captureStack(<<"    at ErrorBuilderImpl.build">> \o callSite)) ELSE Undefined,
                  timestamp |-> Num(DateNow)]
         IN [threw |-> FALSE, error |-> Freeze(Obj("DomainError", cleanError(fields))),
             context |-> ContextOf(b), ctxAddr |-> b.ctxAddr]

----------------------------------------------------------------------------
(* Factory shortcuts: src/errors/factories.ts.  Each is the builder chain  *)
(* of its body, build() included; its value is the outcome of that build.  *)

\* the frames of the code that calls the library
CallerFrames == <<"    at caller">>

InputLogLimit == 100
QueryLogLimit == 200

\* fileNotFound (factories.ts:34-39)
fileNotFound(path) ==
    build(withContext(withMessage(error(Str(<<"FileNotFound">>)),
             Str(<<"File not found: ">> \o ToText(path))),
             ("path" :> path)),
          <<"    at fileNotFound">> \o CallerFrames)

\* fileReadError (factories.ts:51-56)
fileReadError(path, reason) ==
    build(withContext(withMessage(error(Str(<<"FileReadError">>)),
             Str(<<"Failed to read file '">> \o ToText(path) \o <<"': ">> \o ToText(reason))),
             ("path" :> path) @@ ("reason" :> reason)),
          <<"    at fileReadError">> \o CallerFrames)

\* fileWriteError (factories.ts:68-73)
fileWriteError(path, reason) ==
    build(withContext(withMessage(error(Str(<<"FileWriteError">>)),
             Str(<<"Failed to write file '">> \o ToText(path) \o <<"': ">> \o ToText(reason))),
             ("path" :> path) @@ ("reason" :> reason)),
          <<"    at fileWriteError">> \o CallerFrames)

\* permissionDenied (factories.ts:85-90)
permissionDenied(path, operation) ==
    build(withContext(withMessage(error(Str(<<"PermissionDenied">>)),
             Str(<<"Permission denied: cannot ">> \o ToText(operation) \o <<" '">> \o ToText(path) \o <<"'">>)),
             ("path" :> path) @@ ("operation" :> operation)),
          <<"    at permissionDenied">> \o CallerFrames)

\* invalidJSON (factories.ts:110-118)
invalidJSON(input, parseError) ==
    build(withContext(withMessage(error(Str(<<"InvalidJSON">>)),
             Str(<<"Invalid JSON: ">> \o ToText(parseError))),
             ("input" :> Substring(input, 0, InputLogLimit)) @@ ("parseError" :> parseError)),
          <<"    at invalidJSON">> \o CallerFrames)

\* invalidYAML (factories.ts:131-136)
invalidYAML(line, column, parseError) ==
    build(withContext(withMessage(error(Str(<<"InvalidYAML">>)),
             Str(<<"Invalid YAML at line ">> \o ToText(line) \o <<", column ">> \o ToText(column) \o <<": ">> \o ToText(parseError))),
             ("line" :> line) @@ ("column" :> column) @@ ("parseError" :> parseError)),
          <<"    at invalidYAML">> \o CallerFrames)

\* invalidXML (factories.ts:147-152)
invalidXML(parseError) ==
    build(withContext(withMessage(error(Str(<<"InvalidXML">>)),
             Str(<<"Invalid XML: ">> \o ToText(parseError))),
             ("parseError" :> parseError)),
          <<"    at invalidXML">> \o CallerFrames)

\* invalidTOML (factories.ts:163-168)
invalidTOML(parseError) ==
    build(withContext(withMessage(error(Str(<<"InvalidTOML">>)),
             Str(<<"Invalid TOML: ">> \o ToText(parseError))),
             ("parseError" :> parseError)),
          <<"    at invalidTOML">> \o CallerFrames)

\* schemaValidation (factories.ts:187-193)
schemaValidation(issues) ==
    build(skipStack(withContext(withMessage(error(Str(<<"SchemaValidation">>)),
             Str(<<"Validation failed: ">> \o ToText(Num(issues.n)) \o <<" issue(s)">>)),
             ("issues" :> issues))),
          <<"    at schemaValidation">> \o CallerFrames)

\* requiredFieldMissing (factories.ts:204-210)
requiredFieldMissing(field) ==
    build(skipStack(withContext(withMessage(error(Str(<<"RequiredFieldMissing">>)),
             Str(<<"Required field missing: ">> \o ToText(field))),
             ("field" :> field))),
          <<"    at requiredFieldMissing">> \o CallerFrames)

\* invalidFieldValue (factories.ts:223-229)
invalidFieldValue(field, value, expected) ==
    build(skipStack(withContext(withMessage(error(Str(<<"InvalidFieldValue">>)),
             Str(<<"Invalid value for field '">> \o ToText(field) \o <<"': expected ">> \o ToText(expected))),
             ("field" :> field) @@ ("value" :> value) @@ ("expected" :> expected))),
          <<"    at invalidFieldValue">> \o CallerFrames)

\* typeMismatch (factories.ts:242-248)
typeMismatch(field, expected, received) ==
    build(skipStack(withContext(withMessage(error(Str(<<"TypeMismatch">>)),
             Str(<<"Type mismatch for field '">> \o ToText(field) \o <<"': expected ">> \o ToText(expected) \o <<", received ">> \o ToText(received))),
             ("field" :> field) @@ ("expected" :> expected) @@ ("received" :> received))),
          <<"    at typeMismatch">> \o CallerFrames)

\* connectionFailed (factories.ts:264-269)
connectionFailed(endpoint, reason) ==
    build(withContext(withMessage(error(Str(<<"ConnectionFailed">>)),
             Str(<<"Connection failed: ">> \o ToText(endpoint) \o <<" (">> \o ToText(reason) \o <<")">>)),
             ("endpoint" :> endpoint) @@ ("reason" :> reason)),
          <<"    at connectionFailed">> \o CallerFrames)

\* timeout (factories.ts:281-286)
timeout(endpoint, timeoutMs) ==
    build(withContext(withMessage(error(Str(<<"Timeout">>)),
             Str(<<"Request timed out after ">> \o ToText(timeoutMs) \o <<"ms: ">> \o ToText(endpoint))),
             ("endpoint" :> endpoint) @@ ("timeoutMs" :> timeoutMs)),
          <<"    at timeout">> \o CallerFrames)

\* dnsResolutionFailed (factories.ts:297-302)
dnsResolutionFailed(hostname) ==
    build(withContext(withMessage(error(Str(<<"DNSResolutionFailed">>)),
             Str(<<"DNS resolution failed: ">> \o ToText(hostname))),
             ("hostname" :> hostname)),
          <<"    at dnsResolutionFailed">> \o CallerFrames)

\* httpError (factories.ts:315-320)
httpError(url, statusCode, statusText) ==
    build(withContext(withMessage(error(Str(<<"HTTPError">>)),
             Str(<<"HTTP ">> \o ToText(statusCode) \o <<" ">> \o ToText(statusText) \o <<": ">> \o ToText(url))),
             ("url" :> url) @@ ("statusCode" :> statusCode) @@ ("statusText" :> statusText)),
          <<"    at httpError">> \o CallerFrames)

\* databaseConnectionFailed (factories.ts:336-341)
databaseConnectionFailed(database, reason) ==
    build(withContext(withMessage(error(Str(<<"DatabaseConnectionFailed">>)),
             Str(<<"Database connection failed: ">> \o ToText(database) \o <<" (">> \o ToText(reason) \o <<")">>)),
             ("database" :> database) @@ ("reason" :> reason)),
          <<"    at databaseConnectionFailed">> \o CallerFrames)

\* queryFailed (factories.ts:353-361)
queryFailed(query, reason) ==
    build(withContext(withMessage(error(Str(<<"QueryFailed">>)),
             Str(<<"Query failed: ">> \o ToText(reason))),
             ("query" :> Substring(query, 0, QueryLogLimit)) @@ ("reason" :> reason)),
          <<"    at queryFailed">> \o CallerFrames)

\* transactionFailed (factories.ts:372-377)
transactionFailed(reason) ==
    build(withContext(withMessage(error(Str(<<"TransactionFailed">>)),
             Str(<<"Transaction failed: ">> \o ToText(reason))),
             ("reason" :> reason)),
          <<"    at transactionFailed">> \o CallerFrames)

\* constraintViolation (factories.ts:389-398)
constraintViolation(constraint, table) ==
    build(withContext(withMessage(error(Str(<<"ConstraintViolation">>)),
             IF Truthy(table)
             THEN Str(<<"Constraint violation: ">> \o ToText(constraint) \o <<" on table ">> \o ToText(table))
             ELSE Str(<<"Constraint violation: ">> \o ToText(constraint))),
             ("constraint" :> constraint) @@ ("table" :> table)),
          <<"    at constraintViolation">> \o CallerFrames)

\* unauthenticated (factories.ts:413-422)
unauthenticated(resource) ==
    build(withContext(withMessage(error(Str(<<"Unauthenticated">>)),
             IF Truthy(resource)
             THEN Str(<<"Authentication required to access: ">> \o ToText(resource))
             ELSE Str(<<"Authentication required">>)),
             ("resource" :> resource)),
          <<"    at unauthenticated">> \o CallerFrames)

\* unauthorized (factories.ts:434-439)
unauthorized(resource, requiredPermission) ==
    build(withContext(withMessage(error(Str(<<"Unauthorized">>)),
             Str(<<"Unauthorized: '">> \o ToText(requiredPermission) \o <<"' permission required for ">> \o ToText(resource))),
             ("resource" :> resource) @@ ("requiredPermission" :> requiredPermission)),
          <<"    at unauthorized">> \o CallerFrames)

\* tokenExpired (factories.ts:451-460)
tokenExpired(tokenType, expiredAt) ==
    build(withContext(withMessage(error(Str(<<"TokenExpired">>)),
             IF Truthy(expiredAt)
             THEN Str(ToText(tokenType) \o <<" expired at ">> \o ToISOString(expiredAt))
             ELSE Str(ToText(tokenType) \o <<" expired">>)),
             ("tokenType" :> tokenType) @@ ("expiredAt" :> expiredAt)),
          <<"    at tokenExpired">> \o CallerFrames)

\* invalidCredentials (factories.ts:470-474)
invalidCredentials ==
    build(withMessage(error(Str(<<"InvalidCredentials">>)),
             Str(<<"Invalid credentials">>)),
          <<"    at invalidCredentials">> \o CallerFrames)

\* missingConfig (factories.ts:489-494)
missingConfig(configKey) ==
    build(withContext(withMessage(error(Str(<<"MissingConfig">>)),
             Str(<<"Missing configuration: ">> \o ToText(configKey))),
             ("configKey" :> configKey)),
          <<"    at missingConfig">> \o CallerFrames)

\* invalidConfig (factories.ts:506-511)
invalidConfig(configKey, reason) ==
    build(withContext(withMessage(error(Str(<<"InvalidConfig">>)),
             Str(<<"Invalid configuration for '">> \o ToText(configKey) \o <<"': ">> \o ToText(reason))),
             ("configKey" :> configKey) @@ ("reason" :> reason)),
          <<"    at invalidConfig">> \o CallerFrames)

\* configParseError (factories.ts:523-528)
configParseError(configFile, parseError) ==
    build(withContext(withMessage(error(Str(<<"ConfigParseError">>)),
             Str(<<"Failed to parse config file '">> \o ToText(configFile) \o <<"': ">> \o ToText(parseError))),
             ("configFile" :> configFile) @@ ("parseError" :> parseError)),
          <<"    at configParseError">> \o CallerFrames)

\* unexpected (factories.ts:550-556)
unexpected(message, originalError) ==
    build(builderCaptureStack(withContext(withMessage(error(Str(<<"Unexpected">>)),
             message),
             ("originalError" :> originalError))),
          <<"    at unexpected">> \o CallerFrames)

\* ok(value), err(error) (index.ts:67-69, 91-93)
ok(value) == Obj("Result", [ok |-> Bool(TRUE), value |-> value, _isr |-> Bool(TRUE)])

err(e) == Obj("Result", [ok |-> Bool(FALSE), error |-> e, _isr |-> Bool(TRUE)])

----------------------------------------------------------------------------
(* Property access on objects the caller holds (ECMAScript semantics of    *)
(* frozen objects: a write, an addition or a deletion on a frozen object   *)
(* is rejected and leaves the object as it was).                           *)

SetProp(o, k, v) == IF o.frozen THEN o ELSE [o EXCEPT !.f = Spread(o.f, (k :> v))]

DeleteProp(o, k) == IF o.frozen THEN o ELSE [o EXCEPT !.f = [x \in (DOMAIN o.f) \ {k} |-> o.f[x]]]

----------------------------------------------------------------------------
(* The calls a program makes.  `last` is the latest call: op its name, b   *)
(* the builder it was made on, threw whether it raised, ret the address of *)
(* the object it returned (0: none), target the object a write was tried   *)
(* on, arg its argument or its primitive result, cb what the callback it   *)
(* was given did ("returned" or "threw" the value arg; "none": no callback),*)
(* args the arguments of a factory call under its parameters' names.        *)

\* no traversal: op the function, start the address it was called on,
\* current/depth/maxDepth the loop's variables, out what it produced so far
NoWalk ==
    [op |-> "none", start |-> 0, current |-> Undefined, depth |-> 0, maxDepth |-> 0,
     out |-> <<>>, running |-> FALSE]

NoCall ==
    [op |-> "none", b |-> 0, threw |-> FALSE, ret |-> 0, target |-> 0, arg |-> Undefined, cb |-> "none",
     args |-> NoFields]

Call(op, b, threw, ret) == [NoCall EXCEPT !.op = op, !.b = b, !.threw = threw, !.ret = ret]

\* does the outcome of a build hand out the builder's context object for the first time?
HandsOutContext(out) == ~out.threw /\ "context" \in DOMAIN out.error.f /\ out.ctxAddr = 0

\* the heap after a call that returned the outcome `out` of a build
HeapAfter(out) ==
    IF out.threw THEN heap
    ELSE IF HandsOutContext(out)
         THEN heap \o <<Obj("Object", out.context), out.error>>
         ELSE Append(heap, out.error)

OriginAfter(out, who) ==
    IF out.threw THEN origin
    ELSE IF HandsOutContext(out)
         THEN origin \o <<"context", who>>
         ELSE Append(origin, who)

\* the address of the record a call returned (0 when it threw)
Returned(out) == IF out.threw THEN 0 ELSE Len(HeapAfter(out))

\* mutant: undefined ignored instead of resetting the override
setCaptureStacksKeepsOnUndefined(enabled) ==
    captureStacksOverride' = IF enabled = Undefined THEN captureStacksOverride ELSE enabled

\* setCaptureStacks(enabled) (stack.ts:30-32)
setCaptureStacks(enabled) == captureStacksOverride' = enabled

SetCaptureStacks(enabled) ==
    /\ setCaptureStacks(enabled)
    /\ last' = [Call("setCaptureStacks", 0, FALSE, 0) EXCEPT !.arg = enabled]
    /\ UNCHANGED <<setLog, envVars, walkVars, heapVars, builderVars>>

\* setCaptureStacks(enabled), its argument kept in the history
SetCaptureStacksLogged(enabled) ==
    /\ Len(setLog) < MaxSets
    /\ setCaptureStacks(enabled)
    /\ setLog' = Append(setLog, enabled)
    /\ last' = [Call("setCaptureStacks", 0, FALSE, 0) EXCEPT !.arg = enabled]
    /\ UNCHANGED <<envVars, walkVars, heapVars, builderVars>>

\* a call of getCaptureStacks(), its result in last.arg
GetCaptureStacks ==
    /\ last' = [Call("getCaptureStacks", 0, FALSE, 0) EXCEPT !.arg = Bool(getCaptureStacks)]
    /\ UNCHANGED <<policyVars, envVars, walkVars, heapVars, builderVars>>

\* a call of getCaptureStacksOverride(), its result in last.arg
GetCaptureStacksOverride ==
    /\ last' = [Call("getCaptureStacksOverride", 0, FALSE, 0) EXCEPT !.arg = getCaptureStacksOverride]
    /\ UNCHANGED <<policyVars, envVars, walkVars, heapVars, builderVars>>

NewError(kind) ==
    /\ builders' = Append(builders, error(kind))
    /\ partials' = Append(partials, <<>>)
    /\ built' = Append(built, 0)
    /\ said' = Append(said, [n |-> 0, m |-> Undefined, born |-> now])
    /\ last' = Call("error", Len(builders) + 1, FALSE, 0)
    /\ UNCHANGED <<policyVars, envVars, walkVars, heapVars>>

WithMessage(i, message) ==
    /\ builders' = [builders EXCEPT ![i] = withMessage(@, message)]
    /\ said' = [said EXCEPT ![i] = [@ EXCEPT !.n = IF @ = 0 THEN 1 ELSE 2, !.m = message]]
    /\ last' = Call("withMessage", i, FALSE, 0)
    /\ UNCHANGED <<policyVars, envVars, walkVars, heapVars, partials, built>>

WithContext(i, context) ==
    /\ Len(partials[i]) < MaxPartials
    /\ builders' = [builders EXCEPT ![i] = withContext(@, context)]
    /\ partials' = [partials EXCEPT ![i] = Append(@, context)]
    /\ last' = Call("withContext", i, FALSE, 0)
    /\ UNCHANGED <<policyVars, envVars, walkVars, heapVars, built, said>>

WithCause(i, cause) ==
    /\ builders' = [builders EXCEPT ![i] = withCause(@, cause)]
    /\ last' = Call("withCause", i, FALSE, 0)
    /\ UNCHANGED <<policyVars, envVars, walkVars, heapVars, partials, built, said>>

CaptureStack(i) ==
    /\ builders' = [builders EXCEPT ![i] = builderCaptureStack(@)]
    /\ last' = Call("captureStack", i, FALSE, 0)
    /\ UNCHANGED <<policyVars, envVars, walkVars, heapVars, partials, built, said>>

SkipStack(i) ==
    /\ builders' = [builders EXCEPT ![i] = skipStack(@)]
    /\ last' = Call("skipStack", i, FALSE, 0)
    /\ UNCHANGED <<policyVars, envVars, walkVars, heapVars, partials, built, said>>


Build(i) ==
    LET out == build(builders[i], CallerFrames)
    IN /\ heap' = HeapAfter(out)
       /\ origin' = OriginAfter(out, "build")
       /\ built' = IF out.threw THEN built ELSE [built EXCEPT ![i] = @ + 1]
       /\ builders' = IF HandsOutContext(out)
                      THEN [builders EXCEPT ![i].ctxAddr = ContextAddr(builders[i])]
                      ELSE builders
       /\ last' = Call("build", i, out.threw, Returned(out))
       /\ UNCHANGED <<policyVars, envVars, walkVars, partials, said>>

\* the caller tries record.key = value (for a key the record lacks: tries to add it)
AssignField(a, key, value) ==
    /\ heap' = [heap EXCEPT ![a] = SetProp(@, key, value)]
    /\ last' = [Call("assign", 0, heap[a].frozen, 0) EXCEPT !.target = a]
    /\ UNCHANGED <<policyVars, envVars, walkVars, origin, builderVars>>

\* the caller tries delete record.key
DeleteField(a, key) ==
    /\ heap' = [heap EXCEPT ![a] = DeleteProp(@, key)]
    /\ last' = [Call("delete", 0, heap[a].frozen, 0) EXCEPT !.target = a]
    /\ UNCHANGED <<policyVars, envVars, walkVars, origin, builderVars>>

\* the caller holds no object of the library, only its own
NothingHeld == \A a \in 1..Len(heap) : origin[a] = "caller"

\* A call that constructs a record in one step, a builder chain with build()
\* inside it: `out` is the outcome of that build.  The caller holds the
\* result of one such call.
ConstructsFrom(name, arg, out) ==
    /\ NothingHeld
    /\ heap' = HeapAfter(out)
    /\ origin' = OriginAfter(out, name)
    /\ last' = [Call(name, 0, out.threw, Returned(out)) EXCEPT !.arg = arg]
    /\ UNCHANGED <<policyVars, envVars, walkVars, builderVars>>

Constructs(name, out) == ConstructsFrom(name, Undefined, out)

\* a factory call, its arguments kept under the names of its parameters
ConstructsGiven(name, args, out) ==
    /\ NothingHeld
    /\ heap' = HeapAfter(out)
    /\ origin' = OriginAfter(out, name)
    /\ last' = [Call(name, 0, out.threw, Returned(out)) EXCEPT !.args = args]
    /\ UNCHANGED <<policyVars, envVars, walkVars, builderVars>>

\* the caller wraps a record it holds: err(record) (index.ts:91-93)
Err(a) ==
    /\ \A x \in 1..Len(heap) : heap[x].cls # "Result"
    /\ heap' = Append(heap, err(Ref(a)))
    /\ origin' = Append(origin, "result")
    /\ last' = [Call("err", 0, FALSE, Len(heap) + 1) EXCEPT !.target = a]
    /\ UNCHANGED <<policyVars, envVars, walkVars, builderVars>>

FileNotFound(path) == ConstructsGiven("fileNotFound", ("path" :> path), fileNotFound(path))

FileReadError(path, reason) ==
    ConstructsGiven("fileReadError", ("path" :> path) @@ ("reason" :> reason),
                    fileReadError(path, reason))

FileWriteError(path, reason) ==
    ConstructsGiven("fileWriteError", ("path" :> path) @@ ("reason" :> reason),
                    fileWriteError(path, reason))

PermissionDenied(path, operation) ==
    ConstructsGiven("permissionDenied", ("path" :> path) @@ ("operation" :> operation),
                    permissionDenied(path, operation))

InvalidJSON(input, parseError) ==
    ConstructsGiven("invalidJSON", ("input" :> input) @@ ("parseError" :> parseError),
                    invalidJSON(input, parseError))

InvalidYAML(line, column, parseError) ==
    ConstructsGiven("invalidYAML", ("line" :> line) @@ ("column" :> column) @@ ("parseError" :> parseError),
                    invalidYAML(line, column, parseError))

InvalidXML(parseError) == ConstructsGiven("invalidXML", ("parseError" :> parseError), invalidXML(parseError))

InvalidTOML(parseError) ==
    ConstructsGiven("invalidTOML", ("parseError" :> parseError),
                    invalidTOML(parseError))

SchemaValidation(issues) ==
    ConstructsGiven("schemaValidation", ("issues" :> issues),
                    schemaValidation(issues))

RequiredFieldMissing(field) ==
    ConstructsGiven("requiredFieldMissing", ("field" :> field),
                    requiredFieldMissing(field))

InvalidFieldValue(field, value, expected) ==
    ConstructsGiven("invalidFieldValue", ("field" :> field) @@ ("value" :> value) @@ ("expected" :> expected),
                    invalidFieldValue(field, value, expected))

TypeMismatch(field, expected, received) ==
    ConstructsGiven("typeMismatch", ("field" :> field) @@ ("expected" :> expected) @@ ("received" :> received),
                    typeMismatch(field, expected, received))

ConnectionFailed(endpoint, reason) ==
    ConstructsGiven("connectionFailed", ("endpoint" :> endpoint) @@ ("reason" :> reason),
                    connectionFailed(endpoint, reason))

Timeout(endpoint, timeoutMs) ==
    ConstructsGiven("timeout", ("endpoint" :> endpoint) @@ ("timeoutMs" :> timeoutMs),
                    timeout(endpoint, timeoutMs))

DnsResolutionFailed(hostname) ==
    ConstructsGiven("dnsResolutionFailed", ("hostname" :> hostname),
                    dnsResolutionFailed(hostname))

HttpError(url, statusCode, statusText) ==
    ConstructsGiven("httpError", ("url" :> url) @@ ("statusCode" :> statusCode) @@ ("statusText" :> statusText),
                    httpError(url, statusCode, statusText))

DatabaseConnectionFailed(database, reason) ==
    ConstructsGiven("databaseConnectionFailed", ("database" :> database) @@ ("reason" :> reason),
                    databaseConnectionFailed(database, reason))

QueryFailed(query, reason) ==
    ConstructsGiven("queryFailed", ("query" :> query) @@ ("reason" :> reason),
                    queryFailed(query, reason))

TransactionFailed(reason) ==
    ConstructsGiven("transactionFailed", ("reason" :> reason),
                    transactionFailed(reason))

ConstraintViolation(constraint, table) ==
    ConstructsGiven("constraintViolation", ("constraint" :> constraint) @@ ("table" :> table),
                    constraintViolation(constraint, table))

Unauthenticated(resource) ==
    ConstructsGiven("unauthenticated", ("resource" :> resource),
                    unauthenticated(resource))

Unauthorized(resource, requiredPermission) ==
    ConstructsGiven("unauthorized", ("resource" :> resource) @@ ("requiredPermission" :> requiredPermission),
                    unauthorized(resource, requiredPermission))

TokenExpired(tokenType, expiredAt) ==
    ConstructsGiven("tokenExpired", ("tokenType" :> tokenType) @@ ("expiredAt" :> expiredAt),
                    tokenExpired(tokenType, expiredAt))

InvalidCredentials == ConstructsGiven("invalidCredentials", NoFields, invalidCredentials)

MissingConfig(configKey) ==
    ConstructsGiven("missingConfig", ("configKey" :> configKey),
                    missingConfig(configKey))

InvalidConfig(configKey, reason) ==
    ConstructsGiven("invalidConfig", ("configKey" :> configKey) @@ ("reason" :> reason),
                    invalidConfig(configKey, reason))

ConfigParseError(configFile, parseError) ==
    ConstructsGiven("configParseError", ("configFile" :> configFile) @@ ("parseError" :> parseError),
                    configParseError(configFile, parseError))

Unexpected(message, originalError) ==
    ConstructsGiven("unexpected", ("message" :> message) @@ ("originalError" :> originalError),
                    unexpected(message, originalError))

\* fromZodSafeParse(result) (zod.ts:75-95); result.errors is the number of
\* issues of result.error.errors.  made: whether a record was built.
fromZodSafeParse(result) ==
    IF result.success
    THEN [made |-> FALSE, result |-> ok(result.data)]
    ELSE LET issues == Arr(result.errors)
             out == build(skipStack(withContext(withMessage(error(Str(<<"SchemaValidation">>)),
                                Str(<<"Validation failed: ">> \o ToText(Num(issues.n)) \o <<" issue(s)">>)),
                                ("issues" :> issues))),
                          <<"    at fromZodSafeParse">> \o CallerFrames)
         IN [made |-> TRUE, out |-> out, result |-> err(Ref(Returned(out)))]

FromZodSafeParse(result) ==
    LET r == fromZodSafeParse(result)
    IN /\ NothingHeld
       /\ heap' = Append(IF r.made THEN HeapAfter(r.out) ELSE heap, r.result)
       /\ origin' = Append(IF r.made THEN OriginAfter(r.out, "fromZodSafeParse") ELSE origin, "result")
       /\ last' = Call("fromZodSafeParse", 0, FALSE, Len(heap'))
       /\ UNCHANGED <<policyVars, envVars, walkVars, builderVars>>

\* e instanceof Error
InstanceOfError(e) == e.t = "object" /\ heap[e.n].cls = "Error"

\* fromError(e) (conversion.ts:35-60); its value is the outcome of the build
\* it ends with, the record replaced by the spread copy where the code
\* returns { ...record, stack }.
fromError(e) ==
    IF InstanceOfError(e)
    THEN LET builder == withContext(withMessage(error(Str(<<"Unexpected">>)), heap[e.n].f["message"]),
                                    ("originalError" :> e))
             stack == captureStackFromError(heap[e.n])
         IN IF Truthy(Str(stack))
            THEN LET out == build(builderCaptureStack(builder), <<"    at fromError">> \o CallerFrames)
                 IN IF out.threw THEN out
                    ELSE [out EXCEPT !.error = Obj("DomainError", Spread(out.error.f, ("stack" :> Str(stack))))]
            ELSE build(builder, <<"    at fromError">> \o CallerFrames)
    ELSE build(builderCaptureStack(withContext(withMessage(error(Str(<<"Unexpected">>)), Str(ToText(e))),
                                               ("originalError" :> e))),
               <<"    at fromError">> \o CallerFrames)

FromError(e) == ConstructsFrom("fromError", e, fromError(e))

\* mutant: no value recognised as a Result
IsResultNever(value) == FALSE

\* value && typeof value === 'object' && '_isr' in value && value._isr === true
IsResult(value) ==
    /\ value.t = "object"
    /\ "_isr" \in DOMAIN heap[value.n].f
    /\ heap[value.n].f["_isr"] = Bool(TRUE)

\* tryResultSafeSync(fn) (conversion.ts:168-181).  fn is its outcome: the
\* value it returned, or the value it threw.  The value is what the call
\* leaves: whether it raised, the record fromError built, the Result it
\* allocated (fresh) or passed through (addr).
tryResultSafeSync(fn) ==
    IF ~fn.threw
    THEN IF IsResult(fn.value)
         THEN [threw |-> FALSE, made |-> FALSE, fresh |-> FALSE, addr |-> fn.value.n]
         ELSE [threw |-> FALSE, made |-> FALSE, fresh |-> TRUE, addr |-> 0,
               result |-> ok(fn.value)]
    ELSE LET out == fromError(fn.value)
         IN IF out.threw
            THEN [threw |-> TRUE, made |-> FALSE, fresh |-> FALSE, addr |-> 0]
            ELSE [threw |-> FALSE, made |-> TRUE, out |-> out, fresh |-> TRUE, addr |-> 0,
                  result |-> err(Ref(Returned(out)))]

\* tryResultSafe(fn) (conversion.ts:134-149): the same steps on the awaited outcome of fn
tryResultSafe(fn) == tryResultSafeSync(fn)

Wraps(name, fn, r) ==
    /\ NothingHeld
    /\ heap' = LET h == IF r.made THEN HeapAfter(r.out) ELSE heap
               IN IF r.fresh THEN Append(h, r.result) ELSE h
    /\ origin' = LET o == IF r.made THEN OriginAfter(r.out, name) ELSE origin
                 IN IF r.fresh THEN Append(o, "result") ELSE o
    /\ last' = [Call(name, 0, r.threw, IF r.threw THEN 0 ELSE IF r.fresh THEN Len(heap') ELSE r.addr)
                   EXCEPT !.arg = fn.value, !.cb = IF fn.threw THEN "threw" ELSE "returned"]
    /\ UNCHANGED <<policyVars, envVars, walkVars, builderVars>>

TryResultSafeSync(fn) == Wraps("tryResultSafeSync", fn, tryResultSafeSync(fn))

TryResultSafe(fn) == Wraps("tryResultSafe", fn, tryResultSafe(fn))

----------------------------------------------------------------------------
(* Inputs *)

Overrides == {Undefined, Bool(TRUE), Bool(FALSE)}
Kinds == {Str(<<"Custom">>)}
Messages == {Str(<<>>), Str(<<"m1">>), Str(<<"m2">>)}
Partials == {NoFields, ("a" :> Num(1)), ("a" :> Num(2)) @@ ("b" :> Num(3))}
Causes == {Str(<<"root cause">>)}
RecordFields == {"kind", "message", "context", "cause", "stack", "timestamp"}
Intruder == Str(<<"changed">>)

Paths == {Str(<<"/a/b.json">>)}
Reasons == {Str(<<"EACCES">>)}
\* a text of n characters
LongText(n) == Str([i \in 1..n |-> "x"])

Inputs == {Str(<<"{", "x", "}">>), LongText(InputLogLimit), LongText(InputLogLimit + 1)}
Queries == {Str(<<"SELECT 1">>), LongText(QueryLogLimit + 1)}
Numbers == {Num(404)}
IssueLists == {Arr(0), Arr(2)}
FieldNames == {Str(<<"email">>)}
FieldValues == {Undefined, Num(7)}
TypeNames == {Str(<<"string">>)}
OptionalNames == {Undefined, Str(<<"users">>)}
OptionalNumbers == {Undefined, Num(0), Num(86400000)}
FactoryMessages == {Str(<<>>), Str(<<"m1">>)}
ZodResults ==
    {[success |-> TRUE, data |-> Num(7), errors |-> 0],
     [success |-> FALSE, data |-> Undefined, errors |-> 2]}

Records == {a \in 1..Len(heap) : heap[a].cls = "DomainError"}

----------------------------------------------------------------------------
(* Spec: one chain error(kind). ... .build() under every policy and        *)
(* environment, then attempts to change the record it returned.            *)

InitCommon ==
    /\ captureStacksOverride = Undefined
    /\ NODE_ENV \in Envs
    /\ now = 0
    /\ builders = <<>>
    /\ partials = <<>>
    /\ built = <<>>
    /\ said = <<>>
    /\ setLog = <<>>
    /\ last = NoCall
    /\ walk = NoWalk
    /\ inFlight = <<>>

Init ==
    /\ InitCommon
    /\ heap = <<>>
    /\ origin = <<>>

\* a chain in progress: the builder, until build() returns its record
Open(i) == built[i] = 0

Next ==
    \/ \E enabled \in Overrides : SetCaptureStacks(enabled)
    \/ \E kind \in Kinds : builders = <<>> /\ NewError(kind)
    \/ \E i \in 1..Len(builders), message \in Messages : Open(i) /\ WithMessage(i, message)
    \/ \E i \in 1..Len(builders), context \in Partials : Open(i) /\ WithContext(i, context)
    \/ \E i \in 1..Len(builders), cause \in Causes : Open(i) /\ WithCause(i, cause)
    \/ \E i \in 1..Len(builders) : Open(i) /\ CaptureStack(i)
    \/ \E i \in 1..Len(builders) : Open(i) /\ SkipStack(i)
    \/ \E i \in 1..Len(builders) : Open(i) /\ Build(i)
    \/ \E a \in Records, key \in RecordFields \cup {"extra"} : AssignField(a, key, Intruder)
    \/ \E a \in Records, key \in RecordFields : DeleteField(a, key)

Spec == Init /\ [][Next]_vars

----------------------------------------------------------------------------
(* Claims about the builder, checked under Spec *)

\* build() has just returned a record
Built == last.op = "build" /\ ~last.threw

\* the record the latest call returned, and the builder it was called on
Rec == heap[last.ret]
Bld == builders[last.b]

HasStackText(r) == "stack" \in DOMAIN r.f /\ r.f["stack"].t = "string" /\ r.f["stack"].s # <<>>

\* C1: build() raises exactly when withMessage was never called on the builder
\* or its latest argument is the empty string; otherwise it returns a record
\* whose message is the latest argument, however many calls came before.
C1_BuildValidatesMessage ==
    last.op = "build" =>
        LET h == said[last.b]
        IN /\ last.threw <=> (h.n = 0 \/ h.m = Str(<<>>))
           /\ ~last.threw => (Rec.cls = "DomainError" /\ Rec.f["message"] = h.m)

\* C1 witness: after several withMessage calls, the latest with '', build() raised
C1_Witness == last.op = "build" /\ last.threw /\ said[last.b].n = 2 /\ said[last.b].m = Str(<<>>)

\* C2: the per-instance override wins over the global override in both
\* directions: forced off globally, captureStack() gives a record with
\* non-empty stack text; forced on globally, skipStack() gives no stack field.
C2_InstanceOverrideWins ==
    Built =>
        /\ (captureStacksOverride = Bool(FALSE) /\ Bld.stackOverride = "capture") => HasStackText(Rec)
        /\ (captureStacksOverride = Bool(TRUE) /\ Bld.stackOverride = "skip") => "stack" \notin DOMAIN Rec.f

\* C3: with no global and no per-instance override, the record has non-empty
\* stack text when NODE_ENV is "development" or "test" and no stack field for
\* any other value of NODE_ENV, unset included.
C3_EnvironmentDefault ==
    (Built /\ captureStacksOverride = Undefined /\ Bld.stackOverride = "undefined") =>
        IF NODE_ENV \in {"development", "test"}
        THEN HasStackText(Rec)
        ELSE "stack" \notin DOMAIN Rec.f

\* C3 witness: a build under NODE_ENV = "test" with no override captured a stack
C3_Witness ==
    /\ Built /\ captureStacksOverride = Undefined /\ Bld.stackOverride = "undefined"
    /\ NODE_ENV = "test" /\ HasStackText(Rec)

\* C5: no attempt to assign, add or delete a top-level field changes a record
\* that build() returned.
C5_BuiltRecordImmutable ==
    [][\A a \in 1..Len(heap) : origin[a] = "build" => heap'[a] = heap[a]]_vars

\* C5 witness: a write was tried on a record returned by build(), and rejected
C5_Witness == last.op \in {"assign", "delete"} /\ origin[last.target] = "build" /\ last.threw

\* the shallow merge of a sequence of partials, a later one replacing the keys of the earlier ones
RECURSIVE MergeAll(_)
MergeAll(ps) ==
    IF ps = <<>> THEN NoFields
    ELSE LET before == MergeAll(SubSeq(ps, 1, Len(ps) - 1))
             latest == ps[Len(ps)]
         IN [k \in (DOMAIN before) \cup (DOMAIN latest) |->
                IF k \in DOMAIN latest THEN latest[k] ELSE before[k]]

\* C7: the record's context is the merge, in call order, of the partials given
\* to withContext, and the record has no context field when they supplied no key.
C7_ContextMerge ==
    Built =>
        LET merged == MergeAll(partials[last.b])
        IN IF DOMAIN merged = {}
           THEN "context" \notin DOMAIN Rec.f
           ELSE /\ "context" \in DOMAIN Rec.f
                /\ Rec.f["context"].t = "object"
                /\ heap[Rec.f["context"].n].f = merged

\* C7 witness: withContext({a:1}).withContext({a:2,b:3}) built {a:2,b:3}
C7_Witness ==
    /\ Built
    /\ partials[last.b] = <<("a" :> Num(1)), ("a" :> Num(2)) @@ ("b" :> Num(3))>>
    /\ heap[Rec.f["context"].n].f = ("a" :> Num(2)) @@ ("b" :> Num(3))

\* a value that is neither undefined nor empty
NonEmptyValue(v) ==
    CASE v.t = "undefined" -> FALSE
      [] v.t = "string" -> v.s # <<>>
      [] v.t = "object" -> DOMAIN heap[v.n].f # {}
      [] OTHER -> TRUE

\* C8: every field present in a record returned by build() holds a non-empty
\* value; in particular a stack field, when present, is non-empty text.
C8_NoEmptyField == Built => \A k \in DOMAIN Rec.f : NonEmptyValue(Rec.f[k])

----------------------------------------------------------------------------
(* SpecPolicy: sequences of setCaptureStacks calls under every environment, *)
(* and the reads of the policy.                                             *)

NextPolicy ==
    \/ \E enabled \in Overrides : SetCaptureStacksLogged(enabled)
    \/ GetCaptureStacks
    \/ GetCaptureStacksOverride

SpecPolicy == Init /\ [][NextPolicy]_vars

\* C4: getCaptureStacks() returns the argument of the most recent
\* setCaptureStacks call when it is true or false, and the environment's
\* default (NODE_ENV is "development" or "test") when that argument was
\* undefined or no call was made, whatever the calls before it.
C4_LatestSetterDecides ==
    last.op = "getCaptureStacks" =>
        LET n == Len(setLog)
        IN last.arg = IF n > 0 /\ setLog[n] = Bool(TRUE) THEN Bool(TRUE)
                      ELSE IF n > 0 /\ setLog[n] = Bool(FALSE) THEN Bool(FALSE)
                      ELSE Bool(NODE_ENV \in {"development", "test"})

\* C4 witness: after setCaptureStacks(true) and later setCaptureStacks(undefined)
\* under production, getCaptureStacks() returned false
C4_Witness ==
    /\ last.op = "getCaptureStacks"
    /\ Len(setLog) >= 2 /\ setLog[1] = Bool(TRUE) /\ setLog[Len(setLog)] = Undefined
    /\ NODE_ENV = "production" /\ last.arg = Bool(FALSE)

----------------------------------------------------------------------------
(* SpecFactories: one call of a factory shortcut (or of fromZodSafeParse)   *)
(* under every policy and environment, then attempts to change its record.  *)

NextFactories ==
    \/ \E enabled \in Overrides : SetCaptureStacks(enabled)
    \/ \E path \in Paths : FileNotFound(path)
    \/ \E path \in Paths, reason \in Reasons : FileReadError(path, reason)
    \/ \E path \in Paths, reason \in Reasons : FileWriteError(path, reason)
    \/ \E path \in Paths, operation \in Reasons : PermissionDenied(path, operation)
    \/ \E input \in Inputs, parseError \in Reasons : InvalidJSON(input, parseError)
    \/ \E line \in Numbers, column \in Numbers, parseError \in Reasons : InvalidYAML(line, column, parseError)
    \/ \E parseError \in Reasons : InvalidXML(parseError)
    \/ \E parseError \in Reasons : InvalidTOML(parseError)
    \/ \E issues \in IssueLists : SchemaValidation(issues)
    \/ \E field \in FieldNames : RequiredFieldMissing(field)
    \/ \E field \in FieldNames, value \in FieldValues, expected \in TypeNames : InvalidFieldValue(field, value, expected)
    \/ \E field \in FieldNames, expected \in TypeNames, received \in TypeNames : TypeMismatch(field, expected, received)
    \/ \E endpoint \in Paths, reason \in Reasons : ConnectionFailed(endpoint, reason)
    \/ \E endpoint \in Paths, timeoutMs \in Numbers : Timeout(endpoint, timeoutMs)
    \/ \E hostname \in Paths : DnsResolutionFailed(hostname)
    \/ \E url \in Paths, statusCode \in Numbers, statusText \in Reasons : HttpError(url, statusCode, statusText)
    \/ \E database \in Paths, reason \in Reasons : DatabaseConnectionFailed(database, reason)
    \/ \E query \in Queries, reason \in Reasons : QueryFailed(query, reason)
    \/ \E reason \in Reasons : TransactionFailed(reason)
    \/ \E constraint \in FieldNames, table \in OptionalNames : ConstraintViolation(constraint, table)
    \/ \E resource \in OptionalNames : Unauthenticated(resource)
    \/ \E resource \in OptionalNames, requiredPermission \in FieldNames : Unauthorized(resource, requiredPermission)
    \/ \E tokenType \in TypeNames, expiredAt \in OptionalNumbers : TokenExpired(tokenType, expiredAt)
    \/ InvalidCredentials
    \/ \E configKey \in FieldNames : MissingConfig(configKey)
    \/ \E configKey \in FieldNames, reason \in Reasons : InvalidConfig(configKey, reason)
    \/ \E configFile \in Paths, parseError \in Reasons : ConfigParseError(configFile, parseError)
    \/ \E message \in FactoryMessages, originalError \in FieldValues : Unexpected(message, originalError)
    \/ \E result \in ZodResults : FromZodSafeParse(result)
    \/ \E a \in Records : Err(a)
    \/ \E a \in Records, key \in RecordFields \cup {"extra"} : AssignField(a, key, Intruder)
    \/ \E a \in Records, key \in RecordFields : DeleteField(a, key)

SpecFactories == Init /\ [][NextFactories]_vars

----------------------------------------------------------------------------
(* SpecConvert: the calling code holds three Error objects, a plain object  *)
(* and two Results of its own; one conversion of a caught value under every *)
(* policy and environment, then attempts to change the record it returned.  *)

CallerHeap ==
    << Obj("Error", [message |-> Str(<<"boom">>), stack |-> Str(<<"Error: boom", "\n", "    at f">>)]),
       Obj("Error", [message |-> Str(<<>>), stack |-> Str(<<"Error", "\n", "    at g">>)]),
       Obj("Error", [message |-> Str(<<"bare">>)]),
       ok(Num(7)),
       Obj("Object", [code |-> Num(1)]),
       err(Str(<<"failed">>)),
       Obj("Error", [message |-> Str(<<"hollow">>), stack |-> Str(<<>>)]) >>

Thrown == {Ref(1), Ref(2), Ref(3), Ref(7), Ref(5), Str(<<"oops">>), Str(<<>>), Num(42), Undefined, Null}

Returnable == {Num(7), Num(0), Str(<<>>), Bool(FALSE), Null, Undefined, Ref(4), Ref(5), Ref(6)}

FnOutcomes == [threw : {TRUE}, value : Thrown] \cup [threw : {FALSE}, value : Returnable]

InitConvert ==
    /\ InitCommon
    /\ heap = CallerHeap
    /\ origin = [a \in 1..Len(CallerHeap) |-> "caller"]

NextConvert ==
    \/ \E enabled \in Overrides : SetCaptureStacks(enabled)
    \/ \E e \in Thrown : FromError(e)
    \/ \E fn \in FnOutcomes : TryResultSafeSync(fn)
    \/ \E fn \in FnOutcomes : TryResultSafe(fn)
    \/ \E a \in Records, key \in {"message", "extra"} : AssignField(a, key, Intruder)
    \/ \E a \in Records, key \in {"kind"} : DeleteField(a, key)

SpecConvert == InitConvert /\ [][NextConvert]_vars

----------------------------------------------------------------------------
(* Claims checked under SpecFactories *)

ValidationFactories == {"schemaValidation", "requiredFieldMissing", "invalidFieldValue", "typeMismatch"}

FactoryNames ==
    {"fileNotFound", "fileReadError", "fileWriteError", "permissionDenied",
     "invalidJSON", "invalidYAML", "invalidXML", "invalidTOML",
     "schemaValidation", "requiredFieldMissing", "invalidFieldValue", "typeMismatch",
     "connectionFailed", "timeout", "dnsResolutionFailed", "httpError",
     "databaseConnectionFailed", "queryFailed", "transactionFailed", "constraintViolation",
     "unauthenticated", "unauthorized", "tokenExpired", "invalidCredentials",
     "missingConfig", "invalidConfig", "configParseError", "unexpected"}

\* effective capture, from the two inputs of the policy
EffectiveCapture ==
    IF captureStacksOverride = Bool(TRUE) THEN TRUE
    ELSE IF captureStacksOverride = Bool(FALSE) THEN FALSE
    ELSE NODE_ENV \in {"development", "test"}

\* the error a failed fromZodSafeParse carries
ZodFailed == last.op = "fromZodSafeParse" /\ Rec.f["ok"] = Bool(FALSE)
ZodError == heap[Rec.f["error"].n]

\* C9: the four validation factories, and fromZodSafeParse on a failed parse,
\* return a record that has no stack field, whatever the global policy and
\* the environment.
C9_ValidationNeverHasStack ==
    /\ last.op \in ValidationFactories =>
          ~last.threw /\ Rec.cls = "DomainError" /\ "stack" \notin DOMAIN Rec.f
    /\ ZodFailed =>
          ZodError.cls = "DomainError" /\ ZodError.f["kind"] = Str(<<"SchemaValidation">>)
              /\ "stack" \notin DOMAIN ZodError.f

\* C9 witness: capture forced on in development, and a validation record without stack
C9_Witness ==
    /\ last.op \in ValidationFactories \/ ZodFailed
    /\ captureStacksOverride = Bool(TRUE)
    /\ NODE_ENV = "development"

----------------------------------------------------------------------------
(* Claims checked under SpecConvert *)

\* C6: no record the library hands out (by fromError, or inside the err
\* Result of tryResultSafe and tryResultSafeSync) can have a top-level field
\* altered, added or removed.
C6_EveryRecordImmutable ==
    [][\A a \in 1..Len(heap) : heap[a].cls = "DomainError" => heap'[a] = heap[a]]_vars

\* the record the latest conversion handed out: returned by fromError, or
\* carried by the err Result a wrapper returned
Converted == IF last.op = "fromError" THEN Rec ELSE heap[Rec.f["error"].n]

OriginalErrorOf(r) == heap[r.f["context"].n].f["originalError"]

Wrappers == {"tryResultSafe", "tryResultSafeSync"}

\* C11: fromError(e) returns, for every e, a record of kind "Unexpected" whose
\* context.originalError is e and whose message is e.message for a native
\* exception and String(e) otherwise; it never throws.
C11_FromErrorTotal ==
    last.op = "fromError" =>
        /\ ~last.threw
        /\ Rec.f["kind"] = Str(<<"Unexpected">>)
        /\ OriginalErrorOf(Rec) = last.arg
        /\ Rec.f["message"] = IF InstanceOfError(last.arg)
                              THEN heap[last.arg.n].f["message"]
                              ELSE Str(ToText(last.arg))

\* C12: when the callback throws e, the wrapper does not throw: it returns an
\* err Result whose error has kind "Unexpected" and context.originalError e.
C12_WrapperNeverThrows ==
    (last.op \in Wrappers /\ last.cb = "threw") =>
        /\ ~last.threw
        /\ Rec.cls = "Result" /\ Rec.f["ok"] = Bool(FALSE)
        /\ Converted.f["kind"] = Str(<<"Unexpected">>)
        /\ OriginalErrorOf(Converted) = last.arg

\* C13: when the callback returns v, the wrapper's outcome is v itself,
\* unchanged, if v is a Result (marker _isr = true), and otherwise a new
\* ok(v), falsy v included.
C13_WrapperPassesOrWraps ==
    (last.op \in Wrappers /\ last.cb = "returned") =>
        /\ ~last.threw
        /\ Len(heap) >= Len(CallerHeap)
        /\ \A a \in 1..Len(CallerHeap) : heap[a] = CallerHeap[a]
        /\ IF last.arg \in {Ref(4), Ref(6)}
           THEN last.ret = last.arg.n /\ Len(heap) = Len(CallerHeap)
           ELSE last.ret > Len(CallerHeap) /\ Rec = ok(last.arg)

\* C13 witness: an err Result returned by the callback came back as it was,
\* or a falsy value came back inside a new ok
C13_Witness ==
    /\ last.op \in Wrappers /\ last.cb = "returned"
    /\ \/ last.arg = Ref(6) /\ last.ret = 6
       \/ last.arg = Str(<<>>) /\ Rec.f["value"] = Str(<<>>)

C15_NonErrorAlwaysFreshStack ==
    (last.op = "fromError" /\ ~last.threw /\ ~InstanceOfError(last.arg)) => HasStackText(Rec)

----------------------------------------------------------------------------
(* toSentryError: src/errors/conversion.ts.                                 *)
(* SpecSentry: one builder chain whose context may hold keys an Error       *)
(* object has of its own, then toSentryError on the record it returned.     *)

\* mutant: a key the target already has is kept
ObjectAssignKeepsTarget(target, source) == Spread(source, target)

\* Object.assign(target, source): the own fields of source set on target
ObjectAssign(target, source) == Spread(target, source)

\* new Error(message) made inside toSentryError: message and the stack generated there
NewErrorObject(message) ==
    [message |-> message,
     stack |-> Str(<<"Error: ">> \o ToText(message) \o <<"\n", "    at toSentryError">>)]

\* toSentryError(domainError) (conversion.ts:89-104)
toSentryError(domainError) ==
    LET d == domainError.f
        named == Spread(NewErrorObject(d["message"]), ("name" :> d["kind"]))
        stacked == IF "stack" \in DOMAIN d /\ Truthy(d["stack"])
                   THEN Spread(named, ("stack" :> Str(ToText(named["name"]) \o <<": ">>
                                             \o ToText(named["message"]) \o <<"\n">> \o d["stack"].s)))
                   ELSE named
    IN IF "context" \in DOMAIN d /\ Truthy(d["context"])
       THEN Obj("Error", ObjectAssign(stacked, heap[d["context"].n].f))
       ELSE Obj("Error", stacked)

ToSentryError(a) ==
    /\ \A x \in 1..Len(heap) : origin[x] # "toSentryError"
    /\ heap' = Append(heap, toSentryError(heap[a]))
    /\ origin' = Append(origin, "toSentryError")
    /\ last' = [Call("toSentryError", 0, FALSE, Len(heap) + 1) EXCEPT !.target = a]
    /\ UNCHANGED <<policyVars, envVars, walkVars, builderVars>>

SentryPartials ==
    {("path" :> Str(<<"/missing.txt">>)),
     ("message" :> Str(<<"from context">>)),
     ("name" :> Str(<<"FromContext">>)) @@ ("attempt" :> Num(2))}

NextSentry ==
    \/ \E kind \in Kinds : builders = <<>> /\ NewError(kind)
    \/ \E i \in 1..Len(builders), message \in Messages : Open(i) /\ WithMessage(i, message)
    \/ \E i \in 1..Len(builders), context \in SentryPartials : Open(i) /\ WithContext(i, context)
    \/ \E i \in 1..Len(builders) : Open(i) /\ Build(i)
    \/ \E a \in Records : ToSentryError(a)

SpecSentry == Init /\ [][NextSentry]_vars

\* the record toSentryError was called on
Converting == heap[last.target]

\* C16: the exception object toSentryError(r) returns has name = r.kind and
\* message = r.message, whatever keys r.context holds.
C16_SentryNameAndMessage ==
    last.op = "toSentryError" =>
        /\ Rec.f["name"] = Converting.f["kind"]
        /\ Rec.f["message"] = Converting.f["message"]

\* the own properties of an Error object made by toSentryError before the context is copied
ErrorOwnKeys == {"message", "stack", "name"}

\* C17: toSentryError(r) sets every key of r.context on the returned object
\* with the value r.context holds, adds nothing else, and leaves r, its
\* context and every other object as they were.
C17_SentryCopiesContext ==
    [][(last'.op = "toSentryError" /\ last.op # "toSentryError") =>
          LET r == heap[last'.target]
              e == heap'[last'.ret]
              ctx == IF "context" \in DOMAIN r.f THEN heap[r.f["context"].n].f ELSE NoFields
          IN /\ Len(heap') = Len(heap) + 1
             /\ \A a \in 1..Len(heap) : heap'[a] = heap[a]
             /\ \A k \in DOMAIN ctx : k \in DOMAIN e.f /\ e.f[k] = ctx[k]
             /\ DOMAIN e.f = ErrorOwnKeys \cup DOMAIN ctx]_vars

\* C17 witness: a context with a key of its own and a key an Error object
\* has too, both copied
C17_Witness ==
    /\ last.op = "toSentryError"
    /\ "context" \in DOMAIN Converting.f
    /\ LET ctx == heap[Converting.f["context"].n].f
       IN /\ {"path", "message"} \subseteq DOMAIN ctx
          /\ Rec.f["path"] = ctx["path"]
          /\ Rec.f["message"] = ctx["message"]

----------------------------------------------------------------------------
(* Claims checked under SpecFactories (continued) *)

\* is `key` a top-level field of the latest record, holding one of `values`?
TopLevel(key, values) == key \in DOMAIN Rec.f /\ Rec.f[key] \in values

\* C20: the record a factory returns carries the factory's arguments as
\* top-level fields of its kind: fileNotFound(p) has path = p, httpError(u,
\* c, t) has url = u, statusCode = c and statusText = t, and
\* requiredFieldMissing(f) has field = f.
C20_FactoryFieldsTopLevel ==
    /\ last.op = "fileNotFound" => TopLevel("path", Paths)
    /\ last.op = "httpError" =>
          TopLevel("url", Paths) /\ TopLevel("statusCode", Numbers) /\ TopLevel("statusText", Reasons)
    /\ last.op = "requiredFieldMissing" => TopLevel("field", FieldNames)

----------------------------------------------------------------------------
(* Observability: src/observability/logging.ts (toLogContext) and           *)
(* src/observability/tracing.ts (recordErrorCauseChain).                    *)

MAX_CAUSE_DEPTH == 10
DefaultMaxDepth == 5
ChainLen == 20

\* typeof v
TypeOf(v) ==
    CASE v.t \in {"null", "array"} -> "object"
      [] OTHER -> v.t

\* typeof v === 'object' && v !== null && 'kind' in v && 'message' in v
IsDomainErrorShape(v) ==
    /\ TypeOf(v) = "object" /\ v.t = "object"
    /\ "kind" \in DOMAIN heap[v.n].f
    /\ "message" \in DOMAIN heap[v.n].f

\* o.key, undefined when o has no such field
Get(o, key) == IF key \in DOMAIN o.f THEN o.f[key] ELSE Undefined

\* the field key: value, set only when `present`
Optional(present, key, value) == IF present THEN (key :> value) ELSE NoFields

\* toLogContext(error, depth) (logging.ts:42-89); domainError is the object `error`
RECURSIVE toLogContext(_, _)
toLogContext(domainError, depth) ==
    IF depth > MAX_CAUSE_DEPTH
    THEN [error_kind |-> Str(<<"MaxCauseDepthExceeded">>),
          error_message |-> Str(<<"Max cause chain depth (", ToString(MAX_CAUSE_DEPTH), ") exceeded">>)]
    ELSE LET cause == Get(domainError, "cause")
         IN [error_kind |-> Get(domainError, "kind"), error_message |-> Get(domainError, "message")]
            @@ Optional(Truthy(Get(domainError, "context")), "error_context", Get(domainError, "context"))
            @@ Optional(Truthy(Get(domainError, "timestamp")), "error_timestamp", Get(domainError, "timestamp"))
            @@ Optional(Truthy(Get(domainError, "stack")), "error_stack", Get(domainError, "stack"))
            @@ IF ~Truthy(cause) THEN NoFields
               ELSE IF IsDomainErrorShape(cause)
                    THEN ("error_cause" :> toLogContext(heap[cause.n], depth + 1))
                    ELSE ("error_cause" :> [type |-> TypeOf(cause), value |-> Str(ToText(cause))])

ToLogContext(a) ==
    /\ ~walk.running
    /\ walk' = [NoWalk EXCEPT !.op = "toLogContext", !.start = a, !.out = <<toLogContext(heap[a], 0)>>]
    /\ last' = [Call("toLogContext", 0, FALSE, 0) EXCEPT !.target = a]
    /\ UNCHANGED <<policyVars, envVars, heapVars, builderVars, inFlight>>

\* mutant: one more turn of the loop
ContinuesOneMore(currentError, depth, maxDepth) == Truthy(currentError) /\ depth <= maxDepth

\* recordErrorCauseChain, the loop condition (tracing.ts:131)
Continues(currentError, depth, maxDepth) == Truthy(currentError) /\ depth < maxDepth

\* recordErrorCauseChain(span, error, maxDepth) up to its loop (tracing.ts:123-129)
RecordErrorCauseChain(a, maxDepth) ==
    /\ ~walk.running
    /\ walk' = [NoWalk EXCEPT !.op = "recordErrorCauseChain", !.start = a, !.current = Ref(a),
                              !.maxDepth = maxDepth, !.running = TRUE]
    /\ last' = [Call("recordErrorCauseChain", 0, FALSE, 0) EXCEPT !.target = a]
    /\ UNCHANGED <<policyVars, envVars, heapVars, builderVars, inFlight>>

\* the event span.addEvent('exception', ...) receives
ExceptionEvent(type, message, stacktrace, depth) ==
    [type |-> type, message |-> message, stacktrace |-> stacktrace, depth |-> depth]

\* recordErrorCauseChain, one test of the loop condition and the turn of the
\* loop it lets in (tracing.ts:131-159); out is the events the span received
RecordErrorCauseChainStep ==
    /\ walk.running
    /\ walk.op = "recordErrorCauseChain"
    /\ walk' =
          IF ~Continues(walk.current, walk.depth, walk.maxDepth)
          THEN [walk EXCEPT !.running = FALSE]
          ELSE IF IsDomainErrorShape(walk.current)
               THEN LET domainError == heap[walk.current.n]
                    IN [walk EXCEPT
                          !.out = Append(@, ExceptionEvent(Get(domainError, "kind"), Get(domainError, "message"),
                                                           Get(domainError, "stack"), walk.depth)),
                          !.current = Get(domainError, "cause"),
                          !.depth = @ + 1]
               ELSE [walk EXCEPT
                        !.out = Append(@, ExceptionEvent(Str(<<"Unknown">>), Str(ToText(walk.current)),
                                                         Undefined, walk.depth)),
                        !.running = FALSE]
    /\ UNCHANGED <<policyVars, envVars, heapVars, builderVars, inFlight, last>>

----------------------------------------------------------------------------
(* SpecObserve: the caller holds a chain of ChainLen records, each the      *)
(* cause of the one before, two record-shaped objects that are each other's *)
(* cause, and a record whose cause is a string; it traverses them from any  *)
(* starting point.                                                          *)

\* the record error('Level').withMessage(...).withCause(cause).build() returns
Nested(i, cause) ==
    build(withCause(withMessage(error(Str(<<"Level">>)), Str(<<"level ", ToString(i)>>)), cause),
          CallerFrames).error

Cyclic(i, other) ==
    Obj("Object", [kind |-> Str(<<"Loop">>), message |-> Str(<<"loop ", ToString(i)>>), cause |-> Ref(other)])

ObserveHeap ==
    [i \in 1..ChainLen |-> Nested(i, IF i < ChainLen THEN Ref(i + 1) ELSE Undefined)]
    \o << Cyclic(1, ChainLen + 2), Cyclic(2, ChainLen + 1), Nested(0, Str(<<"root cause">>)) >>

MaxDepths == {0, 2, DefaultMaxDepth}

InitObserve ==
    /\ InitCommon
    /\ heap = ObserveHeap
    /\ origin = [a \in 1..Len(ObserveHeap) |-> "caller"]

NextObserve ==
    \/ \E a \in 1..Len(heap) : ToLogContext(a)
    \/ \E a \in 1..Len(heap), maxDepth \in MaxDepths : RecordErrorCauseChain(a, maxDepth)
    \/ RecordErrorCauseChainStep

SpecObserve == InitObserve /\ [][NextObserve]_vars

\* the loop of recordErrorCauseChain runs to its end once entered
SpecObserveLive == SpecObserve /\ WF_vars(RecordErrorCauseChainStep)

\* the entry toLogContext produced at depth d: d error_cause nestings inside `entry`
RECURSIVE EntryAt(_, _)
EntryAt(entry, d) == IF d = 0 THEN entry ELSE EntryAt(entry["error_cause"], d - 1)

\* the number of error_cause nestings inside `entry`
RECURSIVE Nesting(_)
Nesting(entry) == IF "error_cause" \in DOMAIN entry THEN 1 + Nesting(entry["error_cause"]) ELSE 0

DepthExceeded == Str(<<"MaxCauseDepthExceeded">>)

\* C18: toLogContext on the head of a chain of 20 nested records produces
\* the depth-exceeded marker at depth 10, and renders no record at depth 10
\* or deeper.
C18_StopsAtDepthTen ==
    (walk.op = "toLogContext" /\ walk.start = 1) =>
        /\ Nesting(walk.out[1]) = 10
        /\ EntryAt(walk.out[1], 10)["error_kind"] = DepthExceeded

\* C19: both traversals end, also on a cycle and on a long chain:
\* toLogContext returns an output of bounded nesting, and
\* recordErrorCauseChain emits at most maxDepth events, their depth values
\* 0, 1, 2, ... in order, and leaves its loop.
C19_TraversalTerminates ==
    /\ [](walk.op = "toLogContext" => Nesting(walk.out[1]) <= MAX_CAUSE_DEPTH + 1)
    /\ [](walk.op = "recordErrorCauseChain" =>
            /\ Len(walk.out) <= walk.maxDepth
            /\ \A k \in 1..Len(walk.out) : walk.out[k].depth = k - 1)
    /\ (walk.running ~> ~walk.running)

\* C19 witness: recordErrorCauseChain, started on the cycle with the default
\* maxDepth, has left its loop after exactly maxDepth events
C19_Witness ==
    /\ walk.op = "recordErrorCauseChain" /\ ~walk.running
    /\ walk.start = ChainLen + 1
    /\ walk.maxDepth = DefaultMaxDepth
    /\ Len(walk.out) = DefaultMaxDepth

----------------------------------------------------------------------------
(* Claims checked under SpecFactories: what a factory packs *)

\* the kind literal of each factory
KindOf(op) ==
    CASE op = "fileNotFound" -> "FileNotFound"
       [] op = "fileReadError" -> "FileReadError"
       [] op = "fileWriteError" -> "FileWriteError"
       [] op = "permissionDenied" -> "PermissionDenied"
       [] op = "invalidJSON" -> "InvalidJSON"
       [] op = "invalidYAML" -> "InvalidYAML"
       [] op = "invalidXML" -> "InvalidXML"
       [] op = "invalidTOML" -> "InvalidTOML"
       [] op = "schemaValidation" -> "SchemaValidation"
       [] op = "requiredFieldMissing" -> "RequiredFieldMissing"
       [] op = "invalidFieldValue" -> "InvalidFieldValue"
       [] op = "typeMismatch" -> "TypeMismatch"
       [] op = "connectionFailed" -> "ConnectionFailed"
       [] op = "timeout" -> "Timeout"
       [] op = "dnsResolutionFailed" -> "DNSResolutionFailed"
       [] op = "httpError" -> "HTTPError"
       [] op = "databaseConnectionFailed" -> "DatabaseConnectionFailed"
       [] op = "queryFailed" -> "QueryFailed"
       [] op = "transactionFailed" -> "TransactionFailed"
       [] op = "constraintViolation" -> "ConstraintViolation"
       [] op = "unauthenticated" -> "Unauthenticated"
       [] op = "unauthorized" -> "Unauthorized"
       [] op = "tokenExpired" -> "TokenExpired"
       [] op = "invalidCredentials" -> "InvalidCredentials"
       [] op = "missingConfig" -> "MissingConfig"
       [] op = "invalidConfig" -> "InvalidConfig"
       [] op = "configParseError" -> "ConfigParseError"
       [] op = "unexpected" -> "Unexpected"

\* the context of the latest record (no field when it has none)
ContextOfRec == IF "context" \in DOMAIN Rec.f THEN heap[Rec.f["context"].n].f ELSE NoFields

\* does text hold part as a contiguous run of characters?
Contains(text, part) ==
    \E i \in 1..(Len(text) - Len(part) + 1) : SubSeq(text, i, i + Len(part) - 1) = part

\* the first n characters of a string value
FirstChars(v, n) == IF Len(v.s) <= n THEN v ELSE Str(SubSeq(v.s, 1, n))

\* err(record) is an err Result carrying that record
ErrCarriesRecord ==
    last.op = "err" => (Rec.f["ok"] = Bool(FALSE) /\ Rec.f["error"] = Ref(last.target))

FactoryReturned == last.op \in FactoryNames /\ ~last.threw

\* C21 as stated: the record of every factory has the factory's kind literal
\* and its context holds every argument under the parameter's name with
\* exactly the value passed, for strings of any length; fileNotFound's
\* message contains the path; err(record) is an err Result carrying the record.
C21_FactoryPacksArguments ==
    /\ FactoryReturned =>
          /\ Rec.f["kind"] = Str(<<KindOf(last.op)>>)
          /\ \A p \in DOMAIN last.args : p \in DOMAIN ContextOfRec /\ ContextOfRec[p] = last.args[p]
    /\ (FactoryReturned /\ last.op = "fileNotFound") => Contains(Rec.f["message"].s, last.args["path"].s)
    /\ ErrCarriesRecord

\* what the context holds for parameter p of factory op, given the value passed
Packed(op, p, value) ==
    IF op = "invalidJSON" /\ p = "input" THEN FirstChars(value, 100)
    ELSE IF op = "queryFailed" /\ p = "query" THEN FirstChars(value, 200)
    ELSE value

\* C21 amended: as above, except that invalidJSON keeps the first 100
\* characters of input and queryFailed the first 200 characters of query,
\* and that unexpected's message argument is the record's message, not a
\* context key.
C21_FactoryPacksArgumentsTruncated ==
    /\ FactoryReturned =>
          /\ Rec.f["kind"] = Str(<<KindOf(last.op)>>)
          /\ \A p \in DOMAIN last.args :
                IF last.op = "unexpected" /\ p = "message"
                THEN Rec.f["message"] = last.args[p] /\ p \notin DOMAIN ContextOfRec
                ELSE p \in DOMAIN ContextOfRec /\ ContextOfRec[p] = Packed(last.op, p, last.args[p])
          /\ DOMAIN ContextOfRec \subseteq DOMAIN last.args
    /\ (FactoryReturned /\ last.op = "fileNotFound") => Contains(Rec.f["message"].s, last.args["path"].s)
    /\ ErrCarriesRecord

\* C21 witness: invalidJSON called with an input of more than 100 characters
\* returned a record whose context holds its first 100 characters
C21_Witness ==
    /\ FactoryReturned /\ last.op = "invalidJSON"
    /\ Len(last.args["input"].s) > 100
    /\ Len(ContextOfRec["input"].s) = 100

----------------------------------------------------------------------------
(* SpecClock: one builder chain while the clock advances; a context may     *)
(* hold a key named timestamp.                                              *)

\* time passes
Tick ==
    /\ now < MaxClock
    /\ now' = now + 1
    /\ UNCHANGED <<policyVars, NODE_ENV, heapVars, builderVars, walkVars, last>>

ClockPartials == {("timestamp" :> Num(99)), ("a" :> Num(1))}

NextClock ==
    \/ Tick
    \/ \E kind \in Kinds : builders = <<>> /\ NewError(kind)
    \/ \E i \in 1..Len(builders), message \in Messages : Open(i) /\ WithMessage(i, message)
    \/ \E i \in 1..Len(builders), context \in ClockPartials : Open(i) /\ WithContext(i, context)
    \/ \E i \in 1..Len(builders) : Open(i) /\ Build(i)

SpecClock == Init /\ [][NextClock]_vars

\* this step is a build() that returned a record
BuildReturned == Len(built') = Len(built) /\ built' # built

\* C22: the record build() returns has timestamp = the clock when build()
\* runs, whatever the clock was when the builder was created and whatever
\* the context holds, a key named timestamp included.
C22_TimestampIsBuildTime ==
    [][BuildReturned => heap'[last'.ret].f["timestamp"] = Num(now)]_vars

\* C22 witness: a builder created earlier, with withContext({timestamp: 99}),
\* built a record stamped with the later clock value
C22_Witness ==
    /\ Built
    /\ said[last.b].born < now
    /\ "context" \in DOMAIN Rec.f
    /\ "timestamp" \in DOMAIN heap[Rec.f["context"].n].f
    /\ Rec.f["timestamp"] = Num(now)

----------------------------------------------------------------------------
(* SpecFrame: setCaptureStacks calls in any order among the calls of up to  *)
(* MaxBuilders builder chains, or among a factory or conversion call and    *)
(* toSentryError on its record.                                             *)

FrameThrown == {Ref(1), Ref(3), Str(<<"oops">>)}

FrameOutcomes == [threw : {TRUE}, value : {Ref(1)}] \cup [threw : {FALSE}, value : {Num(7)}]

NextFrame ==
    \/ \E enabled \in Overrides : SetCaptureStacks(enabled)
    \/ \E kind \in Kinds : Len(builders) < MaxBuilders /\ NothingHeld /\ NewError(kind)
    \/ \E i \in 1..Len(builders) : Open(i) /\ WithMessage(i, Str(<<"m1">>))
    \/ \E i \in 1..Len(builders) : Open(i) /\ CaptureStack(i)
    \/ \E i \in 1..Len(builders) : Open(i) /\ SkipStack(i)
    \/ \E i \in 1..Len(builders) : Open(i) /\ Build(i)
    \/ \E path \in Paths : builders = <<>> /\ FileNotFound(path)
    \/ \E field \in FieldNames : builders = <<>> /\ RequiredFieldMissing(field)
    \/ \E originalError \in FieldValues : builders = <<>> /\ Unexpected(Str(<<"m1">>), originalError)
    \/ \E e \in FrameThrown : builders = <<>> /\ FromError(e)
    \/ \E fn \in FrameOutcomes : builders = <<>> /\ TryResultSafeSync(fn)
    \/ \E fn \in FrameOutcomes : builders = <<>> /\ TryResultSafe(fn)
    \/ \E a \in Records : builders = <<>> /\ ToSentryError(a)

SpecFrame == InitConvert /\ [][NextFrame]_vars

\* C23: only setCaptureStacks changes the process-wide override, and the
\* stack decision of a build depends on that builder's own per-instance
\* override and on the global policy, not on any other builder.
C23_OverrideFrame ==
    [][/\ captureStacksOverride' # captureStacksOverride => last'.op = "setCaptureStacks"
       /\ BuildReturned =>
             ("stack" \in DOMAIN heap'[last'.ret].f <=>
                 \/ builders[last'.b].stackOverride = "capture"
                 \/ builders[last'.b].stackOverride = "undefined" /\ EffectiveCapture)]_vars

\* C23 witness: with capture off and captureStack() called on builder 1,
\* builder 2 (no per-instance override) built a record without stack
C23_Witness ==
    /\ Built /\ last.b = 2
    /\ builders[1].stackOverride = "capture"
    /\ Bld.stackOverride = "undefined"
    /\ ~EffectiveCapture
    /\ "stack" \notin DOMAIN Rec.f

----------------------------------------------------------------------------
(* SpecContext: one builder chain, then writes tried on the context object  *)
(* of the record it returned.                                               *)

\* the context objects handed out inside records
ContextObjects == {a \in 1..Len(heap) : origin[a] = "context"}

NextContext ==
    \/ \E kind \in Kinds : builders = <<>> /\ NewError(kind)
    \/ \E i \in 1..Len(builders), message \in Messages : Open(i) /\ WithMessage(i, message)
    \/ \E i \in 1..Len(builders), context \in Partials : Open(i) /\ WithContext(i, context)
    \/ \E i \in 1..Len(builders) : Open(i) /\ Build(i)
    \/ \E a \in ContextObjects, key \in {"a", "extra"} : AssignField(a, key, Intruder)
    \/ \E a \in ContextObjects, key \in {"a"} : DeleteField(a, key)

SpecContext == Init /\ [][NextContext]_vars

\* C24: after build(), the contents of record.context cannot be changed: no
\* key of it can be reassigned, added or deleted.
C24_ContextImmutable ==
    [][\A a \in 1..Len(heap) : origin[a] = "context" => heap'[a] = heap[a]]_vars

----------------------------------------------------------------------------
(* Core helpers: src/index.ts (unwrap, tryResult, assert, assertOr).        *)
(* The value of a call is its outcome: whether it raised, and the objects   *)
(* it allocated in order, the last of them being the Result it returned.    *)

\* a parameter with a default value: the default when the argument is undefined
DefaultTo(argument, default) == IF argument = Undefined THEN default ELSE argument

\* new Error(message), made at callSite
NewErrorAt(message, callSite) ==
    Obj("Error", [message |-> message,
                  stack |-> Str(<<"Error: ">> \o ToText(message) \o <<"\n", callSite>>)])

Raises(objects) == [threw |-> TRUE, alloc |-> objects]

Returns(objects) == [threw |-> FALSE, alloc |-> objects]

\* assert(condition, error, shouldThrow) (index.ts:275-287); an argument left
\* out is undefined.  The default error is kept only where it is used.
assert(condition, givenError, shouldThrow) ==
    LET defaulted == givenError = Undefined
        e == IF defaulted THEN Ref(Len(heap) + 1) ELSE givenError
        made == IF defaulted THEN <<NewErrorAt(Str(<<"Assertion failed">>), "    at assert")>> ELSE <<>>
    IN IF ~Truthy(condition)
       THEN IF Truthy(DefaultTo(shouldThrow, Bool(TRUE)))
            THEN Raises(made)
            ELSE Returns(Append(made, err(e)))
       ELSE Returns(<<ok(Bool(TRUE))>>)

\* assertOr(condition, error, shouldThrow) (index.ts:308-320)
assertOr(condition, givenError, shouldThrow) ==
    IF ~Truthy(condition)
    THEN IF Truthy(DefaultTo(shouldThrow, Bool(TRUE)))
         THEN Raises(<<>>)
         ELSE Returns(<<err(givenError)>>)
    ELSE Returns(<<ok(Bool(TRUE))>>)

\* tryResult, its catch block (index.ts:250-256)
tryResultCatch(e, shouldThrow) ==
    LET wrapped == ~InstanceOfError(e)
        caught == IF wrapped THEN Ref(Len(heap) + 1) ELSE e
        made == IF wrapped THEN <<NewErrorAt(Str(ToText(e)), "    at tryResult")>> ELSE <<>>
    IN IF Truthy(DefaultTo(shouldThrow, Bool(FALSE)))
       THEN Raises(made)
       ELSE Returns(Append(made, err(caught)))

\* value._isr, undefined on a value without that field
MarkerOf(value) ==
    IF value.t = "object" /\ "_isr" \in DOMAIN heap[value.n].f THEN heap[value.n].f["_isr"] ELSE Undefined

\* tryResult(fn, shouldThrow) (index.ts:239-257), with unwrap (index.ts:157-160)
\* in line; fn is its outcome: the value it resolved to, or the value it threw
tryResult(fn, shouldThrow) ==
    IF fn.threw
    THEN tryResultCatch(fn.value, shouldThrow)
    ELSE IF Truthy(fn.value) /\ Truthy(MarkerOf(fn.value))
         THEN LET result == heap[fn.value.n]
              IN IF ~Truthy(result.f["ok"])
                 THEN tryResultCatch(result.f["error"], shouldThrow)
                 ELSE Returns(<<ok(result.f["value"])>>)
         ELSE Returns(<<ok(fn.value)>>)

\* a call of a core helper with the outcome `out`
CoreCall(name, args, out) ==
    /\ NothingHeld
    /\ heap' = heap \o out.alloc
    /\ origin' = origin \o [k \in 1..Len(out.alloc) |-> name]
    /\ last' = [Call(name, 0, out.threw, IF out.threw THEN 0 ELSE Len(heap) + Len(out.alloc))
                   EXCEPT !.args = args]
    /\ UNCHANGED <<policyVars, envVars, walkVars, builderVars>>

AssertCall(condition, givenError, shouldThrow) ==
    CoreCall("assert",
             ("condition" :> condition) @@ ("error" :> givenError) @@ ("shouldThrow" :> shouldThrow),
             assert(condition, givenError, shouldThrow))

AssertOr(condition, givenError, shouldThrow) ==
    CoreCall("assertOr",
             ("condition" :> condition) @@ ("error" :> givenError) @@ ("shouldThrow" :> shouldThrow),
             assertOr(condition, givenError, shouldThrow))

TryResult(fn, shouldThrow) ==
    CoreCall("tryResult",
             ("fn" :> fn.value) @@ ("fnThrew" :> Bool(fn.threw)) @@ ("shouldThrow" :> shouldThrow),
             tryResult(fn, shouldThrow))

----------------------------------------------------------------------------
(* SpecCore: the calling code holds an Error object, a record, and ok and   *)
(* err Results; it makes one call of a core helper.                         *)

CoreHeap ==
    << Obj("Error", [message |-> Str(<<"boom">>), stack |-> Str(<<"Error: boom", "\n", "    at f">>)]),
       build(withMessage(error(Str(<<"NotFound">>)), Str(<<"missing">>)), CallerFrames).error,
       ok(Num(7)),
       err(Ref(1)),
       err(Ref(2)) >>

Conditions == {Bool(TRUE), Bool(FALSE)}
GivenErrors == {Ref(1), Ref(2)}
CoreOutcomes ==
    [threw : {TRUE}, value : {Ref(1), Ref(2), Str(<<"oops">>)}]
    \cup [threw : {FALSE}, value : {Num(7), Num(0), Undefined, Ref(3), Ref(4), Ref(5)}]

InitCore ==
    /\ InitCommon
    /\ heap = CoreHeap
    /\ origin = [a \in 1..Len(CoreHeap) |-> "caller"]

NextCore ==
    \/ \E condition \in Conditions, e \in GivenErrors \cup {Undefined}, shouldThrow \in Overrides :
          AssertCall(condition, e, shouldThrow)
    \/ \E condition \in Conditions, e \in GivenErrors, shouldThrow \in Overrides :
          AssertOr(condition, e, shouldThrow)
    \/ \E fn \in CoreOutcomes, shouldThrow \in Overrides : TryResult(fn, shouldThrow)

SpecCore == InitCore /\ [][NextCore]_vars

\* C25: assert and assertOr called without shouldThrow do not throw: they
\* return ok(true) when the condition is true and err(error), carrying the
\* given error, when it is false.
C25_AssertReturnsResult ==
    (last.op \in {"assert", "assertOr"} /\ last.args["shouldThrow"] = Undefined) =>
        /\ ~last.threw
        /\ IF last.args["condition"] = Bool(TRUE)
           THEN Rec = ok(Bool(TRUE))
           ELSE Rec.f["ok"] = Bool(FALSE)
                  /\ (last.args["error"] # Undefined => Rec.f["error"] = last.args["error"])

\* C29: when the callback of tryResult (shouldThrow = false) resolves to a
\* Result r, tryResult resolves to a Result that is not nested, with r's ok
\* flag and r's payload: r.value for an ok r, r.error for an err r.
C29_TryResultKeepsPayload ==
    (last.op = "tryResult" /\ last.args["fnThrew"] = Bool(FALSE)
        /\ last.args["fn"] \in {Ref(3), Ref(4), Ref(5)} /\ last.args["shouldThrow"] = Bool(FALSE)) =>
        LET r == heap[last.args["fn"].n]
        IN /\ ~last.threw
           /\ Rec.cls = "Result"
           /\ Rec.f["ok"] = r.f["ok"]
           /\ IF r.f["ok"] = Bool(TRUE)
              THEN Rec.f["value"] = r.f["value"]
              ELSE Rec.f["error"] = r.f["error"]

----------------------------------------------------------------------------
(* SpecDecision: one builder chain among setCaptureStacks calls, with the   *)
(* calls that touch a stack switch kept, in order, in setLog: the argument  *)
(* of a setCaptureStacks call, and a marker for error(), captureStack()     *)
(* and skipStack().                                                         *)

Created == Str(<<"error">>)
AskedCapture == Str(<<"captureStack">>)
AskedSkip == Str(<<"skipStack">>)

NewErrorLogged(kind) ==
    /\ Len(setLog) < MaxLog
    /\ builders' = Append(builders, error(kind))
    /\ partials' = Append(partials, <<>>)
    /\ built' = Append(built, 0)
    /\ said' = Append(said, [n |-> 0, m |-> Undefined, born |-> now])
    /\ setLog' = Append(setLog, Created)
    /\ last' = Call("error", Len(builders) + 1, FALSE, 0)
    /\ UNCHANGED <<captureStacksOverride, envVars, walkVars, heapVars>>

CaptureStackLogged(i) ==
    /\ Len(setLog) < MaxLog
    /\ builders' = [builders EXCEPT ![i] = builderCaptureStack(@)]
    /\ setLog' = Append(setLog, AskedCapture)
    /\ last' = Call("captureStack", i, FALSE, 0)
    /\ UNCHANGED <<captureStacksOverride, envVars, walkVars, heapVars, partials, built, said>>

SkipStackLogged(i) ==
    /\ Len(setLog) < MaxLog
    /\ builders' = [builders EXCEPT ![i] = skipStack(@)]
    /\ setLog' = Append(setLog, AskedSkip)
    /\ last' = Call("skipStack", i, FALSE, 0)
    /\ UNCHANGED <<captureStacksOverride, envVars, walkVars, heapVars, partials, built, said>>

NextDecision ==
    \/ \E enabled \in Overrides : SetCaptureStacksLogged(enabled)
    \/ \E kind \in Kinds : builders = <<>> /\ NewErrorLogged(kind)
    \/ \E i \in 1..Len(builders) : Open(i) /\ WithMessage(i, Str(<<"m1">>))
    \/ \E i \in 1..Len(builders) : Open(i) /\ CaptureStackLogged(i)
    \/ \E i \in 1..Len(builders) : Open(i) /\ SkipStackLogged(i)
    \/ \E i \in 1..Len(builders) : Open(i) /\ Build(i)

SpecDecision == Init /\ [][NextDecision]_vars

\* the positions of a log holding one of the given entries
Positions(log, entries) == {k \in 1..Len(log) : log[k] \in entries}

\* the latest of the given entries in a log, `none` when it holds none of them
Latest(log, entries, none) ==
    LET at == Positions(log, entries)
    IN IF at = {} THEN none ELSE log[CHOOSE k \in at : \A j \in at : j <= k]

\* effective capture after the setCaptureStacks calls of a log
PolicyAfter(log) ==
    LET enabled == Latest(log, {Bool(TRUE), Bool(FALSE), Undefined}, Undefined)
    IN IF enabled = Undefined THEN NODE_ENV \in {"development", "test"} ELSE enabled = Bool(TRUE)

\* effective capture when the builder was created
PolicyAtCreation ==
    LET k == CHOOSE j \in 1..Len(setLog) : setLog[j] = Created
    IN PolicyAfter(SubSeq(setLog, 1, k - 1))

\* C26: the stack decision of a build is taken when build() runs: from the
\* latest of the captureStack()/skipStack() calls made on the builder, and
\* with none made, from the global policy as it is then, not as it was when
\* the builder was created.  A record has a stack field exactly when the
\* decision is to capture, and stack text when the policy is on as well.
C26_DecidedAtBuild ==
    Built =>
        LET asked == Latest(setLog, {AskedCapture, AskedSkip}, Undefined)
            decision == IF asked = AskedCapture THEN TRUE
                        ELSE IF asked = AskedSkip THEN FALSE
                        ELSE PolicyAfter(setLog)
        IN /\ "stack" \in DOMAIN Rec.f <=> decision
           /\ (decision /\ PolicyAfter(setLog)) => HasStackText(Rec)

\* C26 witness: a builder with no per-instance override, created with the
\* policy on and built after setCaptureStacks turned it off, gave a record
\* without stack
C26_Witness ==
    /\ Built
    /\ Positions(setLog, {AskedCapture, AskedSkip}) = {}
    /\ PolicyAtCreation /\ ~PolicyAfter(setLog)
    /\ "stack" \notin DOMAIN Rec.f

----------------------------------------------------------------------------
(* fromError on a native exception without stack text, under SpecConvert *)

\* the exception has no stack text: the field is absent or holds ''
LacksStackText(o) == "stack" \notin DOMAIN o.f \/ ~Truthy(o.f["stack"])

\* the trace was taken inside fromError: it holds the frame of fromError
CapturedInFromError(r) ==
    /\ HasStackText(r)
    /\ \E k \in 1..Len(r.f["stack"].s) : r.f["stack"].s[k] = "    at fromError"

----------------------------------------------------------------------------
(* SpecReuse: a builder that is used again after build(): more setter       *)
(* calls and a second build(), among setCaptureStacks calls.                *)

\* build() has returned on builder i, and may be called again
Reused(i) == built[i] >= 1 /\ built[i] < MaxBuilds

NextReuse ==
    \/ \E enabled \in Overrides : SetCaptureStacks(enabled)
    \/ \E kind \in Kinds : builders = <<>> /\ NewError(kind)
    \/ \E i \in 1..Len(builders) : Open(i) /\ WithMessage(i, Str(<<"m1">>))
    \/ \E i \in 1..Len(builders) : Open(i) /\ WithContext(i, ("a" :> Num(1)))
    \/ \E i \in 1..Len(builders) : Reused(i) /\ WithMessage(i, Str(<<"m2">>))
    \/ \E i \in 1..Len(builders) : Reused(i) /\ WithContext(i, ("a" :> Num(2)) @@ ("b" :> Num(3)))
    \/ \E i \in 1..Len(builders), cause \in Causes : Reused(i) /\ WithCause(i, cause)
    \/ \E i \in 1..Len(builders) : Reused(i) /\ CaptureStack(i)
    \/ \E i \in 1..Len(builders) : Reused(i) /\ SkipStack(i)
    \/ \E i \in 1..Len(builders) : built[i] < MaxBuilds /\ Build(i)

SpecReuse == Init /\ [][NextReuse]_vars

\* the objects build() has handed out: records and their context objects
HandedOut == {a \in 1..Len(heap) : origin[a] \in {"build", "context"}}

\* C28: no later call on the builder (withMessage, withContext, withCause,
\* captureStack, skipStack, another build()) and no later setCaptureStacks
\* changes a record build() returned, nor the context object it points to;
\* another build() on the builder returns a new record, holding the message,
\* context, cause and stack decision the builder has at that call.
C28_RecordDetached ==
    [][/\ \A a \in HandedOut : heap'[a] = heap[a]
       /\ (BuildReturned /\ built[last'.b] >= 1) =>
             LET b == last'.b
                 record == heap'[last'.ret]
                 merged == MergeAll(partials[b])
             IN /\ last'.ret > Len(heap)
                /\ record.f["message"] = said[b].m
                /\ IF DOMAIN merged = {} THEN "context" \notin DOMAIN record.f
                   ELSE heap'[record.f["context"].n].f = merged
                /\ IF builders[b].cause = Undefined THEN "cause" \notin DOMAIN record.f
                   ELSE record.f["cause"] = builders[b].cause
                /\ "stack" \in DOMAIN record.f <=>
                      \/ builders[b].stackOverride = "capture"
                      \/ builders[b].stackOverride = "undefined" /\ EffectiveCapture]_vars

\* C28 witness: after withMessage('m2'), skipStack() and a second build(), the
\* first record still has message 'm1' and its stack, the second has 'm2'
\* and none
C28_Witness ==
    /\ Built /\ built[last.b] = 2
    /\ \E a \in Records :
          /\ a < last.ret
          /\ heap[a].f["message"] = Str(<<"m1">>) /\ HasStackText(heap[a])
    /\ Rec.f["message"] = Str(<<"m2">>) /\ "stack" \notin DOMAIN Rec.f

----------------------------------------------------------------------------
(* tryResultSafe step by step (conversion.ts:134-149): the call runs up to  *)
(* `await fn()` and suspends; it resumes, later, with the outcome of fn.    *)
(* SpecAwait: up to MaxInFlight calls, resumed in any order, among          *)
(* setCaptureStacks calls.                                                  *)

\* tryResultSafe(fn) called: it suspends at the await.  `called` keeps the
\* effective capture of that moment.
TryResultSafeCall(fn) ==
    /\ Len(inFlight) < MaxInFlight
    /\ inFlight' = Append(inFlight, [fn |-> fn, called |-> getCaptureStacks, done |-> FALSE, ret |-> 0])
    /\ last' = [Call("tryResultSafe.call", 0, FALSE, 0) EXCEPT !.arg = fn.value]
    /\ UNCHANGED <<policyVars, envVars, walk, heapVars, builderVars>>

\* call k resumes after its await: the rest of the try block or the catch block
TryResultSafeResume(k) ==
    LET fn == inFlight[k].fn
        r == tryResultSafe(fn)
        ret == IF r.threw THEN 0 ELSE IF r.fresh THEN Len(heap') ELSE r.addr
    IN /\ ~inFlight[k].done
       /\ heap' = LET h == IF r.made THEN HeapAfter(r.out) ELSE heap
                  IN IF r.fresh THEN Append(h, r.result) ELSE h
       /\ origin' = LET o == IF r.made THEN OriginAfter(r.out, "tryResultSafe") ELSE origin
                    IN IF r.fresh THEN Append(o, "result") ELSE o
       /\ last' = [Call("tryResultSafe", 0, r.threw, ret)
                      EXCEPT !.arg = fn.value, !.cb = IF fn.threw THEN "threw" ELSE "returned",
                             !.args = ("call" :> Num(k))]
       /\ inFlight' = [inFlight EXCEPT ![k].done = TRUE, ![k].ret = ret]
       /\ UNCHANGED <<policyVars, envVars, walk, builderVars>>

AwaitOutcomes ==
    [threw : {TRUE}, value : {Ref(1), Ref(2)}]
    \cup [threw : {FALSE}, value : {Num(7)}]

NextAwait ==
    \/ \E enabled \in Overrides : SetCaptureStacks(enabled)
    \/ \E fn \in AwaitOutcomes : TryResultSafeCall(fn)
    \/ \E k \in 1..Len(inFlight) : TryResultSafeResume(k)

SpecAwait == InitConvert /\ [][NextAwait]_vars

\* this step resumes a suspended tryResultSafe call
Resumed == Len(inFlight') = Len(inFlight) /\ inFlight' # inFlight

====
